---- MODULE Spec2Model ----
(***************************************************************************)
(* Model of the beluga C++ boundary layer (Buffer, construction facades,   *)
(* Jobs adapters).  Definitions follow the C++ sources; the allocator      *)
(* entry points create_buffer / destroy_buffer / is_buffer_empty are       *)
(* declared extern "C" in common.cpp and are modelled from their contract. *)
(***************************************************************************)
EXTENDS Integers, Sequences, FiniteSets, TLC

VARIABLES bufs, heap, native, last, call, nhandles, cb,
          handles, conn, pending, stack, fired, delivered, requests

\* The event side of the boundary: handles with their contexts, adapters
\* registered per operation, the native thread's call stack, the record
\* of native events fired and boundary callbacks entered, and the log of
\* the operation requests made.  conn is the native MQTT connection behind
\* the std::shared_ptr<MqttConnection> the handles hold.
evVars == <<handles, conn, pending, stack, fired, delivered, requests>>
NoConnection == [st |-> "none", refs |-> 0]
EvQuiet ==
    /\ handles = <<>>
    /\ conn = NoConnection
    /\ pending = {}
    /\ stack = <<>>
    /\ fired = 0
    /\ delivered = <<>>
    /\ requests = <<>>

\* ------------------------------------------------------------------ bounds
NBufs == 2
MaxSize == 2
NNative == 1

Slots == 1..NBufs
\* Every Buffer object allocates at most once, so NBufs cells are enough.
AllocIds == 1..NBufs
Sizes == 1..MaxSize
Regions == 1..NNative

\* ---------------------------------------------------------------- pointers
NullPtr == [k |-> "null", id |-> 0]
HeapPtr(a) == [k |-> "heap", id |-> a]
NativePtr(r) == [k |-> "native", id |-> r]

\* ------------------------------------------------------------------ memory
\* The allocator behind create_buffer/destroy_buffer: one cell per allocation.
HeapInit == [a \in AllocIds |-> [st |-> "unused", size |-> 0, frees |-> 0]]

\* Memory owned by the native library (ByteBuf / ByteCursor backing store).
NativeInit == [r \in Regions |-> [st |-> "live", size |-> MaxSize, frees |-> 0, writes |-> 0]]

FreshAllocs(h) == {a \in AllocIds : h[a].st = "unused"}

\* free(p) of the allocator: a heap cell is marked freed and counted.
FreeHeap(h, p) ==
    IF p.k = "heap"
    THEN [h EXCEPT ![p.id] = [@ EXCEPT !.st = "freed", !.frees = @ + 1]]
    ELSE h

\* free(p) applied to a pointer into native memory releases native storage.
FreeNative(nat, p) ==
    IF p.k = "native"
    THEN [nat EXCEPT ![p.id] = [@ EXCEPT !.st = "freed", !.frees = @ + 1]]
    ELSE nat

TotalFrees(h, nat) ==
    LET RECURSIVE SumH(_), SumN(_)
        SumH(n) == IF n = 0 THEN 0 ELSE h[n].frees + SumH(n - 1)
        SumN(n) == IF n = 0 THEN 0 ELSE nat[n].frees + SumN(n - 1)
    IN SumH(NBufs) + SumN(NNative)

\* ------------------------------------------------------------------ Buffer
\* struct Buffer { uint8_t *data; size_t len; bool owned; }
Buffer(data, len, owned) == [data |-> data, len |-> len, owned |-> owned]

\* Buffer::Buffer()
Buffer_default == Buffer(NullPtr, 0, FALSE)

\* Faulty variant: the borrowed constructor claims ownership of the native bytes.
Buffer_from_ByteBuf_Owning(buff) == Buffer(buff.buffer, buff.len, TRUE)

\* Buffer::Buffer(const ByteBuf &buff)
Buffer_from_ByteBuf(buff) == Buffer(buff.buffer, buff.len, FALSE)

\* Buffer::Buffer(const ByteCursor &buff)
Buffer_from_ByteCursor(cur) == Buffer(cur.ptr, cur.len, FALSE)

\* bool Buffer::is_owned() const
is_owned(b) == b.owned

\* extern "C" is_buffer_empty: "i.e. len == 0" (common.h)
is_buffer_empty(b) == b.len = 0

\* bool Buffer::is_empty() const
is_empty(b) == is_buffer_empty(b)

\* Faulty variant: the move leaves the ownership flag on the source as well.
MoveAssign_KeepsSourceOwned(this, other, same) ==
    IF ~same
    THEN [this |-> Buffer(other.data, other.len, other.owned),
          other |-> Buffer(other.data, other.len, other.owned)]
    ELSE [this |-> this, other |-> other]

\* Faulty variant: the move does not carry the ownership flag over.
MoveAssign_DropsOwned(this, other, same) ==
    IF ~same
    THEN [this |-> Buffer(other.data, other.len, this.owned),
          other |-> Buffer(NullPtr, 0, FALSE)]
    ELSE [this |-> this, other |-> other]

\* Faulty variant: the move forgets to reset the length of the source.
MoveAssign_KeepsSourceLen(this, other, same) ==
    IF ~same
    THEN [this |-> Buffer(other.data, other.len, other.owned),
          other |-> Buffer(NullPtr, other.len, FALSE)]
    ELSE [this |-> this, other |-> other]

\* Buffer &Buffer::operator=(Buffer &&other): the pair (this, other) afterwards.
\* same is (this == &other).
MoveAssign(this, other, same) ==
    IF ~same
    THEN [this |-> Buffer(other.data, other.len, other.owned),
          other |-> Buffer(NullPtr, 0, FALSE)]
    ELSE [this |-> this, other |-> other]

\* Buffer::Buffer(Buffer &&other): *this = std::move(other) on a new object.
MoveConstruct(other) == MoveAssign(Buffer_default, other, FALSE)

\* extern "C" create_buffer(size): allocates size bytes and owns them, or
\* gives back an empty non-owning Buffer when the allocation fails.
create_buffer(h, size, a, ok) ==
    IF ok
    THEN [buf |-> Buffer(HeapPtr(a), size, TRUE),
          heap |-> [h EXCEPT ![a] = [st |-> "live", size |-> size, frees |-> 0]]]
    ELSE [buf |-> Buffer(NullPtr, 0, FALSE), heap |-> h]

\* extern "C" destroy_buffer(buffer): gives the backing store back to the
\* allocator and clears data/len.
destroy_buffer(b, h, nat) ==
    [buf |-> Buffer(NullPtr, 0, b.owned),
     heap |-> FreeHeap(h, b.data),
     native |-> FreeNative(nat, b.data)]

\* Buffer::~Buffer()
Buffer_dtor(b, h, nat) ==
    IF is_owned(b)
    THEN LET d == destroy_buffer(b, h, nat)
         IN [buf |-> [d.buf EXCEPT !.owned = FALSE], heap |-> d.heap, native |-> d.native]
    ELSE [buf |-> b, heap |-> h, native |-> nat]

\* Buffer Buffer::create(size): return std::move(create_buffer(size));
\* the temporary is moved from and then destroyed.
Buffer_create(h, nat, size, a, ok) ==
    LET c == create_buffer(h, size, a, ok)
        m == MoveConstruct(c.buf)
        d == Buffer_dtor(m.other, c.heap, nat)
    IN [buf |-> m.this, heap |-> d.heap, native |-> d.native]

\* --------------------------------------------------- Buffer objects (slots)
\* A slot is one C++ object: constructed once, moved from and assigned to any
\* number of times, then destroyed.
\* st: "none" not yet constructed, "live" constructed, "moved" moved-from,
\*     "destroyed" destructor has run (the bytes of the struct remain).
NoObject == [st |-> "none", b |-> Buffer_default]
Constructible(s) == bufs[s].st = "none"
Usable(s) == bufs[s].st \in {"live", "moved"}

\* The operation that produced the current state: its operands, what the
\* source of a move (or the released object) held before it, and how many
\* frees the allocator saw during it.
LastRec(op, dst, src, n, ok, held, freed) ==
    [op |-> op, dst |-> dst, src |-> src, n |-> n, ok |-> ok, held |-> held, freed |-> freed]

BufInit ==
    /\ bufs = [s \in Slots |-> NoObject]
    /\ heap = HeapInit
    /\ native = NativeInit
    /\ last = LastRec("init", 0, 0, 0, FALSE, Buffer_default, 0)
    /\ call = [fn |-> "none"]
    /\ nhandles = [k \in {} |-> 0]
    /\ cb = [fn |-> "none"]
    /\ EvQuiet

ConstructDefault(s) ==
    /\ Constructible(s)
    /\ bufs' = [bufs EXCEPT ![s] = [st |-> "live", b |-> Buffer_default]]
    /\ last' = LastRec("default", s, 0, 0, FALSE, Buffer_default, 0)
    /\ UNCHANGED <<heap, native>>
    /\ UNCHANGED <<call, nhandles, cb, evVars>>

ConstructFromByteBuf(s, r, n) ==
    /\ Constructible(s)
    /\ native[r].st = "live"
    /\ bufs' = [bufs EXCEPT ![s] =
                  [st |-> "live", b |-> Buffer_from_ByteBuf([buffer |-> NativePtr(r), len |-> n])]]
    /\ last' = LastRec("borrow_buf", s, 0, n, FALSE, Buffer_default, 0)
    /\ UNCHANGED <<heap, native>>
    /\ UNCHANGED <<call, nhandles, cb, evVars>>

ConstructFromByteCursor(s, r, n) ==
    /\ Constructible(s)
    /\ native[r].st = "live"
    /\ bufs' = [bufs EXCEPT ![s] =
                  [st |-> "live", b |-> Buffer_from_ByteCursor([ptr |-> NativePtr(r), len |-> n])]]
    /\ last' = LastRec("borrow_cursor", s, 0, n, FALSE, Buffer_default, 0)
    /\ UNCHANGED <<heap, native>>
    /\ UNCHANGED <<call, nhandles, cb, evVars>>

Create(s, n, ok) ==
    /\ Constructible(s)
    /\ ok => FreshAllocs(heap) # {}
    /\ LET a == IF ok THEN CHOOSE x \in FreshAllocs(heap) : TRUE ELSE 1
           c == Buffer_create(heap, native, n, a, ok)
       IN /\ bufs' = [bufs EXCEPT ![s] = [st |-> "live", b |-> c.buf]]
          /\ heap' = c.heap
          /\ native' = c.native
          /\ last' = LastRec("create", s, 0, n, ok, Buffer_default,
                             TotalFrees(c.heap, c.native) - TotalFrees(heap, native))
    /\ UNCHANGED <<call, nhandles, cb, evVars>>

MoveCtor(d, s) ==
    /\ d # s
    /\ Constructible(d)
    /\ Usable(s)
    /\ LET m == MoveConstruct(bufs[s].b)
       IN /\ bufs' = [bufs EXCEPT ![d] = [st |-> "live", b |-> m.this],
                                  ![s] = [st |-> "moved", b |-> m.other]]
          /\ last' = LastRec("move_ctor", d, s, 0, FALSE, bufs[s].b, 0)
    /\ UNCHANGED <<heap, native>>
    /\ UNCHANGED <<call, nhandles, cb, evVars>>

\* Faulty variant: the assignment releases what the destination held first.
MoveAsgn_ReleasesTarget(d, s) ==
    /\ Usable(d)
    /\ Usable(s)
    /\ d # s
    /\ LET r == Buffer_dtor(bufs[d].b, heap, native)
           m == MoveAssign(r.buf, bufs[s].b, FALSE)
       IN /\ bufs' = [bufs EXCEPT ![d] = [st |-> "live", b |-> m.this],
                                  ![s] = [st |-> "moved", b |-> m.other]]
          /\ heap' = r.heap
          /\ native' = r.native
          /\ last' = LastRec("move_assign", d, s, 0, FALSE, bufs[s].b, 0)
    /\ UNCHANGED <<call, nhandles, cb, evVars>>

MoveAsgn(d, s) ==
    /\ Usable(d)
    /\ Usable(s)
    /\ LET m == MoveAssign(bufs[d].b, bufs[s].b, d = s)
       IN /\ bufs' = IF d = s
                     THEN [bufs EXCEPT ![d] = [st |-> bufs[d].st, b |-> m.this]]
                     ELSE [bufs EXCEPT ![d] = [st |-> "live", b |-> m.this],
                                       ![s] = [st |-> "moved", b |-> m.other]]
          /\ last' = LastRec("move_assign", d, s, 0, FALSE, bufs[s].b, 0)
    /\ UNCHANGED <<heap, native>>
    /\ UNCHANGED <<call, nhandles, cb, evVars>>

\* release: ~Buffer() runs on the object in slot s (a second run on an
\* already destroyed object is the repeated release).
Release(s) ==
    /\ bufs[s].st # "none"
    /\ LET d == Buffer_dtor(bufs[s].b, heap, native)
       IN /\ bufs' = [bufs EXCEPT ![s] = [st |-> "destroyed", b |-> d.buf]]
          /\ heap' = d.heap
          /\ native' = d.native
          /\ last' = LastRec(IF bufs[s].st = "destroyed" THEN "release_again"
                             ELSE IF bufs[s].st = "moved" THEN "release_moved"
                             ELSE "release",
                             s, 0, 0, FALSE, bufs[s].b,
                             TotalFrees(d.heap, d.native) - TotalFrees(heap, native))
    /\ UNCHANGED <<call, nhandles, cb, evVars>>

BufNext ==
    \/ \E s \in Slots : ConstructDefault(s)
    \/ \E s \in Slots, r \in Regions, n \in 0..MaxSize : ConstructFromByteBuf(s, r, n)
    \/ \E s \in Slots, r \in Regions, n \in 0..MaxSize : ConstructFromByteCursor(s, r, n)
    \/ \E s \in Slots, n \in Sizes, ok \in BOOLEAN : Create(s, n, ok)
    \/ \E d \in Slots, s \in Slots : MoveCtor(d, s)
    \/ \E d \in Slots, s \in Slots : MoveAsgn(d, s)
    \/ \E s \in Slots : Release(s)

bufVars == <<bufs, heap, native, last>>
ctorVars == <<call, nhandles>>
vars == <<bufs, heap, native, last, call, nhandles, cb, evVars>>

\* ------------------------------------------------ construction functions
\* A boundary call is described by the sequence of things it does, in program
\* order (log records, native calls, handle allocations), and what it returns:
\* "handle" (a new handle object), "null", or "crash" when undefined
\* behaviour ended the process.
Ev(op, arg) == [op |-> op, arg |-> arg]
Result(trace, ret) == [trace |-> trace, ret |-> ret]

Did(trace, op, arg) == \E i \in 1..Len(trace) : trace[i] = Ev(op, arg)
DidOp(trace, op) == \E i \in 1..Len(trace) : trace[i].op = op
CountOp(trace, op) == Cardinality({i \in 1..Len(trace) : trace[i].op = op})

\* const char * arguments: NULL, the empty string, or a non-empty string.
NULL == "NULL"
CStrings == {NULL, "", "x"}

\* What the build may do on undefined behaviour.  strlen(NULL): the process
\* dies, or the read through NULL yields a zero or a nonzero byte.
\* AwsString(NULL): the process dies, or some string is built.
StrlenUB == {"crash", "zero", "nonzero"}
StringUB == {"crash", "garbage"}

\* strlen(s) != 0; s = NULL is undefined behaviour decided by ub.
\* "ub" stands for the crash.
StrlenNonZero(s, ub) ==
    IF s = NULL
    THEN (IF ub = "crash" THEN "ub" ELSE IF ub = "nonzero" THEN "true" ELSE "false")
    ELSE (IF s # "" THEN "true" ELSE "false")

\* Faulty variant: Connect is called before the lifecycle adapters are assigned.
internal_mqtt_client_ConnectFirst(cfg, stub, ub) ==
    LET t == <<Ev("log", "debug"), Ev("into", "certificate"), Ev("into", "private_key"),
               Ev("builder", "MqttBuilder(cert,key)"), Ev("builder", "WithEndpoint"),
               Ev("native", "Build"), Ev("native", "NewConnection"), Ev("native", "Connect")>>
    IN IF ~stub.connect
       THEN Result(t \o <<Ev("log", "error")>>, "null")
       ELSE Result(t \o <<Ev("adapter", "OnConnectionCompleted"),
                           Ev("adapter", "OnConnectionClosed"),
                           Ev("adapter", "OnConnectionInterrupted"),
                           Ev("adapter", "OnConnectionResumed"),
                           Ev("new", "InternalMqttClient")>>, "handle")

\* InternalMqttClient *internal_mqtt_client(ClientConfig, const void *)
\* stub: what the native library answers (Build, NewConnection, Connect).
\* ub: the outcome of each undefined operation, should one be executed.
internal_mqtt_client(cfg, stub, ub) ==
    LET start == <<Ev("log", "debug")>>
        \* from WithEndpoint on (mqtt.cpp 49-102)
        Connecting(t) ==
            LET t1 == t \o <<Ev("builder", "WithEndpoint")>>
                         \o (IF cfg.port # 0 THEN <<Ev("builder", "WithPortOverride")>> ELSE <<>>)
                         \o <<Ev("native", "Build")>>
            IN IF ~stub.build
               THEN Result(t1 \o <<Ev("log", "error")>>, "null")
               ELSE LET t2 == t1 \o <<Ev("native", "NewConnection")>>
                    IN IF ~stub.connection
                       THEN Result(t2 \o <<Ev("log", "error")>>, "null")
                       ELSE LET t3 == t2 \o <<Ev("adapter", "OnConnectionCompleted"),
                                              Ev("adapter", "OnConnectionClosed"),
                                              Ev("adapter", "OnConnectionInterrupted"),
                                              Ev("adapter", "OnConnectionResumed"),
                                              Ev("native", "Connect")>>
                            IN IF ~stub.connect
                               THEN Result(t3 \o <<Ev("log", "error")>>, "null")
                               ELSE Result(t3 \o <<Ev("new", "InternalMqttClient")>>, "handle")
        \* the else branch (mqtt.cpp 43-47)
        NoAuth == Result(start \o <<Ev("log", "error")>>, "null")
        Crash(t) == Result(t \o <<Ev("ub", "null pointer read")>>, "crash")
        \* the username/password branch (mqtt.cpp 40-41)
        Password ==
            IF cfg.password = NULL /\ ub.string = "crash" THEN Crash(start)
            ELSE IF cfg.username = NULL /\ ub.string = "crash"
                 THEN Crash(start \o <<Ev("builder", "WithPassword")>>)
                 ELSE Connecting(start \o <<Ev("builder", "WithPassword"),
                                            Ev("builder", "WithUsername")>>)
    IN IF ~is_empty(cfg.certificate) /\ ~is_empty(cfg.private_key)
       THEN Connecting(start \o <<Ev("into", "certificate"), Ev("into", "private_key"),
                                  Ev("builder", "MqttBuilder(cert,key)")>>)
       ELSE LET u == StrlenNonZero(cfg.username, ub.strlen)
            IN IF u = "ub" THEN Crash(start)
               ELSE IF u = "false" THEN NoAuth
               ELSE LET pw == StrlenNonZero(cfg.password, ub.strlen)
                    IN IF pw = "ub" THEN Crash(start)
                       ELSE IF pw = "false" THEN NoAuth
                       ELSE Password

\* The subscriptions internal_jobs_client makes, in program order
\* (jobs.cpp 88, 94, 103, 111, 120, 126).
JobsClientRegs ==
    <<"GetPendingJobExecutionsAccepted", "GetPendingJobExecutionsRejected",
      "JobExecutionsChangedEvents", "NextJobExecutionChangedEvents",
      "StartNextPendingJobExecutionAccepted", "StartNextPendingJobExecutionRejected">>

\* The subscriptions internal_job makes, in program order (job.cpp 52, 58, 68, 74).
JobRegs ==
    <<"DescribeJobExecutionAccepted", "DescribeJobExecutionRejected",
      "UpdateJobExecutionAccepted", "UpdateJobExecutionRejected">>

\* if (!jobs_client->SubscribeToX(...)) return nullptr;  repeated for each
\* registration from the i-th on: the calls made and whether all succeeded.
RECURSIVE SubscribeEach(_, _, _)
\* Faulty variant: the failure of the third registration is not checked.
SubscribeEach_SkipsThirdCheck(regs, res, i) ==
    IF i > Len(regs) THEN [trace |-> <<>>, ok |-> TRUE]
    ELSE IF ~res[i] /\ i # 3 THEN [trace |-> <<Ev("subscribe", regs[i])>>, ok |-> FALSE]
    ELSE LET r == SubscribeEach(regs, res, i + 1)
         IN [trace |-> <<Ev("subscribe", regs[i])>> \o r.trace, ok |-> r.ok]

SubscribeEach(regs, res, i) ==
    IF i > Len(regs) THEN [trace |-> <<>>, ok |-> TRUE]
    ELSE IF ~res[i] THEN [trace |-> <<Ev("subscribe", regs[i])>>, ok |-> FALSE]
    ELSE LET r == SubscribeEach(regs, res, i + 1)
         IN [trace |-> <<Ev("subscribe", regs[i])>> \o r.trace, ok |-> r.ok]

\* InternalJobsClient *internal_jobs_client(mqtt_client, interface, qos, thing_name)
\* res[i]: what the i-th SubscribeTo... call returns.
internal_jobs_client(res) ==
    LET r == SubscribeEach(JobsClientRegs, res, 1)
        t == <<Ev("native", "make_shared<IotJobsClient>")>> \o r.trace
    IN IF ~r.ok THEN Result(t, "null")
       ELSE Result(t \o <<Ev("new", "InternalJobsClient")>>, "handle")

\* InternalJob *internal_job(mqtt_client, interface, qos, thing_name, job_id)
internal_job(res) ==
    LET r == SubscribeEach(JobRegs, res, 1)
        t == <<Ev("native", "make_shared<IotJobsClient>")>> \o r.trace
    IN IF ~r.ok THEN Result(t, "null")
       ELSE Result(t \o <<Ev("new", "InternalJob")>>, "handle")

\* InternalTunnelClient *internal_tunnel_client(mqtt_client, interface, qos, thing_name)
\* stub.usable: operator bool of the native client; stub.subscribed: what
\* SubscribeToTunnelsNotify returns.  std::make_unique never yields null, so
\* !tunnel_client is false and && does not evaluate !*tunnel_client.
internal_tunnel_client(stub) ==
    LET tunnel_client_is_null == FALSE
        t == <<Ev("native", "make_unique<IotSecureTunnelingClient>")>>
    IN IF tunnel_client_is_null /\ ~stub.usable
       THEN Result(t, "null")
       ELSE Result(t \o <<Ev("subscribe", "TunnelsNotify"),
                          Ev("new", "InternalTunnelClient")>>, "handle")

\* The adapters internal_tunnel hands to the builder (tunnel.cpp 134-142).
TunnelAdapters ==
    <<"OnConnectionSuccess", "OnConnectionFailure", "OnConnectionShutdown",
      "OnConnectionReset", "OnSessionReset", "OnSendMessageComplete",
      "OnMessageReceived", "OnStreamStarted", "OnStreamStopped">>

\* InternalTunnel *internal_tunnel(interface, endpoint, access_token)
internal_tunnel(stub) ==
    LET t == <<Ev("native", "SecureTunnelBuilder")>>
                \o [i \in 1..Len(TunnelAdapters) |-> Ev("adapter", TunnelAdapters[i])]
                \o <<Ev("native", "Build")>>
    IN IF ~stub.build
       THEN Result(t \o <<Ev("log", "error")>>, "null")
       ELSE Result(t \o <<Ev("new", "InternalTunnel")>>, "handle")

\* ------------------------------------------------------- handle objects
MaxHandles == 2
Kinds == {"mqtt", "jobs", "job", "tunnel_client", "tunnel"}
RECURSIVE SumOver(_, _)
SumOver(f, S) == IF S = {} THEN 0
                 ELSE LET k == CHOOSE x \in S : TRUE IN f[k] + SumOver(f, S \ {k})
LiveHandles(n) == SumOver(n, Kinds)

NoCfg == [certificate |-> Buffer_default, private_key |-> Buffer_default,
          username |-> "", password |-> "", port |-> 0]
NoStub == [build |-> TRUE, connection |-> TRUE, connect |-> TRUE,
           usable |-> TRUE, subscribed |-> TRUE]
CallRec(fn, cfg, stub, res, r, made) ==
    [fn |-> fn, cfg |-> cfg, stub |-> stub, res |-> res,
     trace |-> r.trace, ret |-> r.ret, made |-> made]

\* The certificate and private_key Buffers a caller passes: empty or not.
CfgBuffers == {Buffer_default, Buffer(NativePtr(1), 1, FALSE)}
Configs == [certificate : CfgBuffers, private_key : CfgBuffers,
            username : CStrings, password : CStrings, port : {0, 8883}]
\* The native answers to Build, NewConnection and Connect; an answer that is
\* never asked for (after an earlier failure) is left TRUE.
MqttStubs == {s \in [build : BOOLEAN, connection : BOOLEAN, connect : BOOLEAN,
                     usable : {TRUE}, subscribed : {TRUE}] :
                /\ ~s.build => (s.connection /\ s.connect)
                /\ ~s.connection => s.connect}
TunnelClientStubs == [build : {TRUE}, connection : {TRUE}, connect : {TRUE},
                      usable : BOOLEAN, subscribed : BOOLEAN]
TunnelStubs == [build : BOOLEAN, connection : {TRUE}, connect : {TRUE},
                usable : {TRUE}, subscribed : {TRUE}]
UBs == [strlen : StrlenUB, string : StringUB]
\* Undefined behaviour can only be met with a NULL username or password.
UBsFor(cfg) == IF NULL \in {cfg.username, cfg.password}
               THEN UBs
               ELSE {[strlen |-> "crash", string |-> "crash"]}

IdleCall == CallRec("none", NoCfg, NoStub, <<>>, Result(<<>>, "void"), 0)

\* The caller is outside any boundary function and may enter one.
Running == call = IdleCall

\* The boundary function has returned and the caller goes on with the value
\* it got; after a crash there is no caller left.
CallerResumes ==
    /\ call # IdleCall
    /\ call.ret # "crash"
    /\ call' = IdleCall
    /\ UNCHANGED nhandles
    /\ UNCHANGED <<bufVars, cb, evVars>>

\* A construction call: r is what the function did; a returned handle is a
\* new handle object of the kind.
Construct(fn, kind, cfg, stub, res, r) ==
    /\ r.ret = "handle" => LiveHandles(nhandles) < MaxHandles
    /\ nhandles' = [nhandles EXCEPT ![kind] = @ + CountOp(r.trace, "new")]
    /\ call' = CallRec(fn, cfg, stub, res, r, LiveHandles(nhandles') - LiveHandles(nhandles))
    /\ UNCHANGED <<bufVars, cb, evVars>>

Call_internal_mqtt_client(cfg, stub, ub) ==
    /\ Running
    /\ Construct("internal_mqtt_client", "mqtt", cfg, stub, <<>>,
                 internal_mqtt_client(cfg, stub, ub))

Call_internal_jobs_client(res) ==
    /\ Running
    /\ nhandles["mqtt"] > 0
    /\ Construct("internal_jobs_client", "jobs", NoCfg, NoStub, res,
                 internal_jobs_client(res))

Call_internal_job(res) ==
    /\ Running
    /\ nhandles["mqtt"] > 0
    /\ Construct("internal_job", "job", NoCfg, NoStub, res, internal_job(res))

Call_internal_tunnel_client(stub) ==
    /\ Running
    /\ nhandles["mqtt"] > 0
    /\ Construct("internal_tunnel_client", "tunnel_client", NoCfg, stub, <<>>,
                 internal_tunnel_client(stub))

Call_internal_tunnel(stub) ==
    /\ Running
    /\ Construct("internal_tunnel", "tunnel", NoCfg, stub, <<>>, internal_tunnel(stub))

\* drop_*: delete handle
Drop(fn, kind) ==
    /\ nhandles[kind] > 0
    /\ nhandles' = [nhandles EXCEPT ![kind] = @ - 1]
    /\ call' = CallRec(fn, NoCfg, NoStub, <<>>, Result(<<Ev("delete", kind)>>, "void"), 0)
    /\ UNCHANGED <<bufVars, cb, evVars>>

drop_client == Running /\ Drop("drop_client", "mqtt")
drop_jobs_client == Running /\ Drop("drop_jobs_client", "jobs")
drop_job == Running /\ Drop("drop_job", "job")
drop_internal_tunnel_client == Running /\ Drop("drop_internal_tunnel_client", "tunnel_client")
drop_internal_tunnel == Running /\ Drop("drop_internal_tunnel", "tunnel")

CtorInit ==
    /\ bufs = [s \in Slots |-> NoObject]
    /\ heap = HeapInit
    /\ native = NativeInit
    /\ last = LastRec("init", 0, 0, 0, FALSE, Buffer_default, 0)
    /\ call = IdleCall
    /\ nhandles = [k \in Kinds |-> 0]
    /\ cb = [fn |-> "none"]
    /\ EvQuiet

CtorNext ==
    \/ \E cfg \in Configs, stub \in MqttStubs : \E ub \in UBsFor(cfg) :
          Call_internal_mqtt_client(cfg, stub, ub)
    \/ \E res \in [1..Len(JobsClientRegs) -> BOOLEAN] : Call_internal_jobs_client(res)
    \/ \E res \in [1..Len(JobRegs) -> BOOLEAN] : Call_internal_job(res)
    \/ \E stub \in TunnelClientStubs : Call_internal_tunnel_client(stub)
    \/ \E stub \in TunnelStubs : Call_internal_tunnel(stub)
    \/ drop_client
    \/ drop_jobs_client
    \/ drop_job
    \/ drop_internal_tunnel_client
    \/ drop_internal_tunnel
    \/ CallerResumes

SpecCtor == CtorInit /\ [][CtorNext]_vars

SpecBuffer == BufInit /\ [][BufNext]_vars

\* ----------------------------------------------------------- Jobs adapters
\* An optional value (crt::Optional, or a pointer that may be null): absent,
\* or present with a value.
None == <<>>
Some(x) == <<x>>
Opt(S) == {None} \cup {Some(x) : x \in S}

\* An optional native field is present or absent; the POD carries the
\* address of the native field, or nullptr.
nullptr == "nullptr"
AddrIf(present, addr) == IF present THEN addr ELSE nullptr

\* JobInfo::JobInfo()
JobInfo_default ==
    [job_id |-> nullptr, job_document |-> Buffer_default, status |-> nullptr,
     version_number |-> nullptr, queue_at |-> nullptr, thing_name |-> nullptr,
     execution_number |-> nullptr, last_updated_at |-> nullptr, started_at |-> nullptr]

\* jobs::JobExecutionData: which optional fields are present, and the size
\* of the compact JSON of the job document.
JobExecutionDatas ==
    [JobId : BOOLEAN, ThingName : BOOLEAN, JobDocument : BOOLEAN, Status : BOOLEAN,
     QueuedAt : BOOLEAN, StartedAt : BOOLEAN, LastUpdatedAt : BOOLEAN,
     VersionNumber : BOOLEAN, ExecutionNumber : BOOLEAN, json : Sizes]
NoData ==
    [JobId |-> FALSE, ThingName |-> FALSE, JobDocument |-> FALSE, Status |-> FALSE,
     QueuedAt |-> FALSE, StartedAt |-> FALSE, LastUpdatedAt |-> FALSE,
     VersionNumber |-> FALSE, ExecutionNumber |-> FALSE, json |-> 1]

\* What an adapter has built: the JobInfo, the allocator afterwards, the
\* memcpy calls made (destination and size) and what Buffer::create returned.
Built(info, h, nat, copies, created) ==
    [info |-> info, heap |-> h, native |-> nat, copies |-> copies, created |-> created]

\* Faulty variant: the document is copied and moved without looking at is_empty().
get_job_info_Unchecked(data, h, nat, a, ok) ==
    LET buff == Buffer_create(h, nat, data.json, a, ok)
        m == MoveAssign(Buffer_default, buff.buf, FALSE)
    IN Built([JobInfo_default EXCEPT !.job_document = m.this], buff.heap, buff.native,
             <<[dst |-> buff.buf.data, n |-> data.json]>>, <<buff.buf>>)

\* std::unique_ptr<JobInfo> get_job_info(jobs::JobExecutionData *data)
\* a, ok: the cell the allocator would hand out and whether it does.
get_job_info(data, h, nat, a, ok) ==
    LET info0 == [JobInfo_default EXCEPT !.job_id = AddrIf(data.JobId, "JobId")]
        doc == IF data.JobDocument
               THEN LET buff == Buffer_create(h, nat, data.json, a, ok)
                    IN IF ~is_empty(buff.buf)
                       THEN LET m == MoveAssign(info0.job_document, buff.buf, FALSE)
                                d == Buffer_dtor(m.other, buff.heap, buff.native)
                            IN Built([info0 EXCEPT !.job_document = m.this],
                                     d.heap, d.native,
                                     <<[dst |-> buff.buf.data, n |-> data.json]>>,
                                     <<buff.buf>>)
                       ELSE LET d == Buffer_dtor(buff.buf, buff.heap, buff.native)
                            IN Built(info0, d.heap, d.native, <<>>, <<buff.buf>>)
               ELSE Built(info0, h, nat, <<>>, <<>>)
    IN [doc EXCEPT !.info =
          [@ EXCEPT !.execution_number = AddrIf(data.ExecutionNumber, "ExecutionNumber"),
                    !.status = AddrIf(data.Status, "Status"),
                    !.thing_name = AddrIf(data.ThingName, "ThingName"),
                    !.queue_at = AddrIf(data.QueuedAt, "QueuedAt"),
                    !.started_at = AddrIf(data.StartedAt, "StartedAt"),
                    !.last_updated_at = AddrIf(data.LastUpdatedAt, "LastUpdatedAt")]]

\* A boundary callback in progress: the arguments it was entered with.
\* has_info is FALSE when the JobInfo pointer is null.
CbRec(fn, token, has_info, b, ts, io_err, resp, ok) ==
    [fn |-> fn, client_token |-> token, has_info |-> has_info, info |-> b.info,
     timestamp |-> ts, io_err |-> io_err, copies |-> b.copies, created |-> b.created,
     resp |-> resp, ok |-> ok]
IdleCb == [fn |-> "none"]

\* Native responses: Execution/ClientToken/JobDocument/Timestamp present or not.
Responses ==
    [Execution : BOOLEAN, data : JobExecutionDatas, ClientToken : BOOLEAN,
     JobDocument : BOOLEAN, Timestamp : BOOLEAN]
\* The fields an adapter never looks at are left at one value.
ExecutionResponses ==
    {r \in Responses :
        /\ ~r.JobDocument
        /\ ~r.Timestamp
        /\ (~r.Execution => r.data = NoData)
        /\ (~r.data.JobDocument => r.data.json = 1)}
ChangedResponses ==
    {r \in Responses :
        /\ ~r.JobDocument
        /\ ~r.ClientToken
        /\ (~r.Execution => r.data = NoData)
        /\ (~r.data.JobDocument => r.data.json = 1)}
UpdateResponses ==
    {r \in Responses :
        /\ ~r.Execution
        /\ ~r.Timestamp
        /\ r.data \in {[NoData EXCEPT !.json = n] : n \in Sizes}
        /\ (~r.JobDocument => r.data.json = 1)}
IoErrs == {0, 1}

\* The allocator hands out a cell that is not in use.
FreeCell(h) == CHOOSE a \in AllocIds : h[a].st # "live"
CanAllocate(h) == \E a \in AllocIds : h[a].st # "live"

Enter(c, b) ==
    /\ cb' = c
    /\ heap' = b.heap
    /\ native' = b.native
    /\ UNCHANGED <<bufs, last, call, nhandles, evVars>>

\* Faulty variant: info starts as std::make_unique<JobInfo>(), never null.
describe_job_execution_accepted_lambda_MakeUnique(resp, io_err, ok) ==
    LET b == IF resp.Execution
             THEN get_job_info(resp.data, heap, native, FreeCell(heap), ok)
             ELSE Built(JobInfo_default, heap, native, <<>>, <<>>)
    IN Enter(CbRec("on_describe_job_execution_accepted",
                   AddrIf(resp.ClientToken, "ClientToken"), TRUE, b,
                   nullptr, io_err, resp, ok), b)

\* describe_job_execution_accepted(interface) (job.cpp 156-175)
describe_job_execution_accepted_lambda(resp, io_err, ok) ==
    LET b == IF resp.Execution
             THEN get_job_info(resp.data, heap, native, FreeCell(heap), ok)
             ELSE Built(JobInfo_default, heap, native, <<>>, <<>>)
    IN Enter(CbRec("on_describe_job_execution_accepted",
                   AddrIf(resp.ClientToken, "ClientToken"), resp.Execution, b,
                   nullptr, io_err, resp, ok), b)

\* update_job_execution_accepted(interface) (job.cpp 177-198)
update_job_execution_accepted_lambda(resp, io_err, ok) ==
    LET info0 == JobInfo_default
        b == IF resp.JobDocument
             THEN LET buff == Buffer_create(heap, native, resp.data.json, FreeCell(heap), ok)
                  IN IF ~is_empty(buff.buf)
                     THEN LET m == MoveAssign(info0.job_document, buff.buf, FALSE)
                              d == Buffer_dtor(m.other, buff.heap, buff.native)
                          IN Built([info0 EXCEPT !.job_document = m.this],
                                   d.heap, d.native,
                                   <<[dst |-> buff.buf.data, n |-> resp.data.json]>>,
                                   <<buff.buf>>)
                     ELSE LET d == Buffer_dtor(buff.buf, buff.heap, buff.native)
                          IN Built(info0, d.heap, d.native, <<>>, <<buff.buf>>)
             ELSE Built(info0, heap, native, <<>>, <<>>)
    IN Enter(CbRec("on_update_job_execution_accepted", nullptr, TRUE, b,
                   nullptr, io_err, resp, ok), b)

\* start_next_pending_job_execution(interface) (jobs.cpp 250-269)
start_next_pending_job_execution_lambda(resp, io_err, ok) ==
    LET b == IF resp.Execution
             THEN get_job_info(resp.data, heap, native, FreeCell(heap), ok)
             ELSE Built(JobInfo_default, heap, native, <<>>, <<>>)
    IN Enter(CbRec("on_start_next_pending_job_execution_accepted",
                   AddrIf(resp.ClientToken, "ClientToken"), TRUE, b,
                   nullptr, io_err, resp, ok), b)

\* next_job_execution_changed_events(interface) (jobs.cpp 279-298)
next_job_execution_changed_events_lambda(resp, io_err, ok) ==
    LET b == IF resp.Execution
             THEN get_job_info(resp.data, heap, native, FreeCell(heap), ok)
             ELSE Built(JobInfo_default, heap, native, <<>>, <<>>)
    IN Enter(CbRec("on_next_job_execution_changed_events", nullptr, TRUE, b,
                   AddrIf(resp.Timestamp, "date_time"), io_err, resp, ok), b)

\* Faulty variant: the JobInfo is released from its unique_ptr and never deleted.
CallbackReturns_Leaks ==
    /\ cb # IdleCb
    /\ cb' = IdleCb
    /\ UNCHANGED <<heap, native>>
    /\ UNCHANGED <<bufs, last, call, nhandles, evVars>>

\* The boundary callback returns; the adapter's locals go out of scope:
\* ~unique_ptr<JobInfo> runs ~JobInfo, which runs ~Buffer on job_document.
CallbackReturns ==
    /\ cb # IdleCb
    /\ LET d == IF cb.has_info
                THEN Buffer_dtor(cb.info.job_document, heap, native)
                ELSE [buf |-> Buffer_default, heap |-> heap, native |-> native]
       IN /\ heap' = d.heap
          /\ native' = d.native
    /\ cb' = IdleCb
    /\ UNCHANGED <<bufs, last, call, nhandles, evVars>>

JobsInit ==
    /\ bufs = [s \in Slots |-> NoObject]
    /\ heap = HeapInit
    /\ native = NativeInit
    /\ last = LastRec("init", 0, 0, 0, FALSE, Buffer_default, 0)
    /\ call = IdleCall
    /\ nhandles = [k \in Kinds |-> 0]
    /\ cb = IdleCb
    /\ EvQuiet

\* The native client invokes a registered lambda when no boundary callback
\* is in progress and the allocator has a cell to hand out.
CanFire == cb = IdleCb /\ CanAllocate(heap)

Fire_describe_job_execution_accepted ==
    /\ CanFire
    /\ \E resp \in ExecutionResponses, e \in IoErrs, ok \in BOOLEAN :
          describe_job_execution_accepted_lambda(resp, e, ok)

Fire_update_job_execution_accepted ==
    /\ CanFire
    /\ \E resp \in UpdateResponses, e \in IoErrs, ok \in BOOLEAN :
          update_job_execution_accepted_lambda(resp, e, ok)

Fire_start_next_pending_job_execution ==
    /\ CanFire
    /\ \E resp \in ExecutionResponses, e \in IoErrs, ok \in BOOLEAN :
          start_next_pending_job_execution_lambda(resp, e, ok)

Fire_next_job_execution_changed_events ==
    /\ CanFire
    /\ \E resp \in ChangedResponses, e \in IoErrs, ok \in BOOLEAN :
          next_job_execution_changed_events_lambda(resp, e, ok)

\* ------------------------------------------------- rejections and summaries
MaxJobs == 2

\* A pointer to a field of an object (idx: the element when the object is
\* one of a list, else 0), or nullptr.
NullField == [obj |-> "null", idx |-> 0, field |-> "none"]
FieldPtr(obj, idx, field) == [obj |-> obj, idx |-> idx, field |-> field]

\* jobs::RejectedError with its optional fields.
RejectedErrors ==
    [ClientToken : Opt({"token-1"}), Code : Opt({"InvalidStateTransition", "InvalidJson"}),
     Message : Opt({"bad state", "no such job"}), Timestamp : Opt({1700})]
RejectedCallbacks ==
    {"on_get_pending_job_executions_rejected", "on_start_next_pending_job_execution_rejected",
     "on_describe_job_execution_rejected", "on_update_job_execution_rejected"}

\* Rejected::Rejected()
Rejected_default ==
    [timestamp |-> NullField, code |-> NullField, message |-> NullField,
     client_token |-> NullField]

\* Faulty variant: message is taken from the client token.
rejected_err_MessageFromToken(rejected) ==
    [Rejected_default EXCEPT
        !.client_token = IF rejected.ClientToken # None
                         THEN FieldPtr("rejected", 0, "ClientToken") ELSE NullField,
        !.code = IF rejected.Code # None THEN FieldPtr("rejected", 0, "Code") ELSE NullField,
        !.message = IF rejected.ClientToken # None
                    THEN FieldPtr("rejected", 0, "ClientToken") ELSE NullField,
        !.timestamp = IF rejected.Timestamp # None
                      THEN FieldPtr("rejected", 0, "Timestamp") ELSE NullField]

\* The Rejected the lambda of rejected(interface, impl) fills in from the
\* native error: each pointer is set when the native field is, and points
\* into the native object.
rejected_err(rejected) ==
    [Rejected_default EXCEPT
        !.client_token = IF rejected.ClientToken # None
                         THEN FieldPtr("rejected", 0, "ClientToken") ELSE NullField,
        !.code = IF rejected.Code # None THEN FieldPtr("rejected", 0, "Code") ELSE NullField,
        !.message = IF rejected.Message # None
                    THEN FieldPtr("rejected", 0, "Message") ELSE NullField,
        !.timestamp = IF rejected.Timestamp # None
                      THEN FieldPtr("rejected", 0, "Timestamp") ELSE NullField]

\* A boundary callback that gets no JobInfo: the POD it is handed and the
\* objects that exist while it runs.
PodCb(fn, io_err, resp, pod, live) ==
    CbRec(fn, nullptr, FALSE, Built(JobInfo_default, heap, native, <<>>, <<>>),
          nullptr, io_err, resp, TRUE) @@ [pod |-> pod, live |-> live]

\* The lambda of rejected(interface, impl) (jobs.cpp 180-205): the native
\* error outlives the call.
rejected_lambda(impl, rejected, io_err) ==
    Enter(PodCb(impl, io_err, rejected, rejected_err(rejected), {"rejected"}),
          Built(JobInfo_default, heap, native, <<>>, <<>>))

\* jobs::JobExecutionSummary: which optional fields are present.
SummaryFields ==
    [JobId : BOOLEAN, VersionNumber : BOOLEAN, ExecutionNumber : BOOLEAN,
     StartedAt : BOOLEAN, QueuedAt : BOOLEAN, LastUpdatedAt : BOOLEAN]
NativeSummaries ==
    {s \in SummaryFields :
        \/ s.JobId /\ s.VersionNumber /\ s.ExecutionNumber /\ s.StartedAt /\ s.QueuedAt
             /\ s.LastUpdatedAt
        \/ ~s.VersionNumber /\ ~s.ExecutionNumber /\ ~s.StartedAt /\ ~s.LastUpdatedAt}

\* crt::Optional<crt::Vector<jobs::JobExecutionSummary>>
SeqsUpTo(S, n) == UNION {[1..k -> S] : k \in 0..n}
JobLists ==
    {[present |-> FALSE, items |-> <<>>]}
        \cup {[present |-> TRUE, items |-> s] : s \in SeqsUpTo(NativeSummaries, MaxJobs)}
GetPendingResponses == [QueuedJobs : JobLists, InProgressJobs : JobLists]

\* JobExecutionSummary::JobExecutionSummary(job_id, version_number, ...)
JobExecutionSummary(job_id, version_number, execution_number, started_at, queued_at, last_updated_at) ==
    [job_id |-> job_id, version_number |-> version_number,
     execution_number |-> execution_number, started_at |-> started_at,
     queued_at |-> queued_at, last_updated_at |-> last_updated_at]

\* Faulty variant: the two sizes change places.
JobsSummary_SwappedSizes(queued_jobs, progress_jobs, queued_size, progress_size) ==
    [queued_jobs |-> queued_jobs, progress_jobs |-> progress_jobs,
     queued_size |-> progress_size, progres_size |-> queued_size]

\* JobsSummary::JobsSummary(queued_jobs, progres_jobs, queued_size, progres_size)
JobsSummary(queued_jobs, progress_jobs, queued_size, progress_size) ==
    [queued_jobs |-> queued_jobs, progress_jobs |-> progress_jobs,
     queued_size |-> queued_size, progres_size |-> progress_size]

\* One turn of the loop over a native list: summary is a copy of element
\* i, local to the loop body; the entry points into that copy.
SummaryEntry(copy, i, summary) ==
    JobExecutionSummary(
        IF summary.JobId THEN FieldPtr(copy, i, "JobId") ELSE NullField,
        IF summary.VersionNumber THEN FieldPtr(copy, i, "VersionNumber") ELSE NullField,
        IF summary.ExecutionNumber THEN FieldPtr(copy, i, "ExecutionNumber") ELSE NullField,
        IF summary.StartedAt THEN FieldPtr(copy, i, "StartedAt") ELSE NullField,
        IF summary.QueuedAt THEN FieldPtr(copy, i, "QueuedAt") ELSE NullField,
        IF summary.LastUpdatedAt THEN FieldPtr(copy, i, "LastUpdatedAt") ELSE NullField)

\* std::make_unique<JobExecutionSummary[]>(size) filled by the loop: the
\* array object and its entries.  copy names the loop-local summary.
SummaryArray(array, copy, list, size) ==
    [obj |-> array,
     entries |-> [i \in 1..size |->
                    IF list.present THEN SummaryEntry(copy, i, list.items[i])
                    ELSE JobExecutionSummary(NullField, NullField, NullField, NullField,
                                             NullField, NullField)]]

\* The objects that exist when the lambda calls the boundary callback: the
\* response, the two arrays; each loop-local copy was destroyed at the end
\* of its turn.
LiveAtCallback(created, destroyed) == created \ destroyed

\* The lambda of get_pending_job_executions(interface) (jobs.cpp 210-247).
get_pending_job_executions_lambda(response, io_err) ==
    LET queued_size == IF response.QueuedJobs.present
                       THEN Len(response.QueuedJobs.items) ELSE 0
        progress_size == IF response.InProgressJobs.present
                         THEN Len(response.InProgressJobs.items) ELSE 0
        queued_jobs == SummaryArray("queued_jobs", "queued_summary",
                                    response.QueuedJobs, queued_size)
        progress_jobs == SummaryArray("progress_jobs", "progress_summary",
                                      response.InProgressJobs, progress_size)
        copies == (IF queued_size > 0 THEN {"queued_summary"} ELSE {})
                     \cup (IF progress_size > 0 THEN {"progress_summary"} ELSE {})
    IN Enter(PodCb("on_get_pending_job_executions_accepted", io_err, response,
                   JobsSummary(queued_jobs, progress_jobs, queued_size, progress_size),
                   LiveAtCallback({"response", "queued_jobs", "progress_jobs"} \cup copies,
                                  copies)),
             Built(JobInfo_default, heap, native, <<>>, <<>>))

Fire_rejected ==
    /\ CanFire
    /\ \E impl \in RejectedCallbacks, rejected \in RejectedErrors, e \in IoErrs :
          rejected_lambda(impl, rejected, e)

Fire_get_pending_job_executions ==
    /\ CanFire
    /\ \E response \in GetPendingResponses, e \in IoErrs :
          get_pending_job_executions_lambda(response, e)

JobsNext ==
    \/ Fire_describe_job_execution_accepted
    \/ Fire_update_job_execution_accepted
    \/ Fire_start_next_pending_job_execution
    \/ Fire_next_job_execution_changed_events
    \/ Fire_rejected
    \/ Fire_get_pending_job_executions
    \/ CallbackReturns

SpecJobs == JobsInit /\ [][JobsNext]_vars

\* ------------------------------------------------------ events and adapters
MaxEvents == 1
MaxPending == 2
MaxConstructed == 2

\* Opaque context pointers a caller passes, the native event-loop threads,
\* and the scalar arguments of native events.
Contexts == {"ctxA", "ctxB"}
Threads == {"loop1", "loop2"}
ErrorCodes == {0, 1}
ReturnCodes == {0, 5}

\* The object behind an opaque handle pointer: interface is the member
\* get_interface() reads; delete leaves freed memory behind.
\* captured is the copy of the context the adapters registered at
\* construction hold ([=] capture of interface).
NoHandle == [st |-> "none", interface |-> "unset", captured |-> "unset"]
LiveHandle(ctx) == [st |-> "live", interface |-> ctx, captured |-> ctx]
DroppedHandle(h) == [st |-> "dropped", interface |-> "freed", captured |-> h.captured]
Constructed(hs) == {k \in Kinds : hs[k].st # "none"}

\* The handles holding a shared_ptr to the MQTT connection: the MQTT client
\* itself and every client built from mqtt_client->get_connection().
ConnectionHolders == {"mqtt", "jobs", "job", "tunnel_client"}

\* std::shared_ptr<MqttConnection>: the control block of the connection.
\* make_shared in internal_mqtt_client (mqtt.cpp 26-103) leaves one
\* reference, the member of the new InternalMqttClient.
shared_ptr_make == [st |-> "live", refs |-> 1]
\* A copy of the pointer that is kept: get_connection() handed to the native
\* Jobs / tunnelling client a handle owns (jobs.cpp 83, job.cpp 46,
\* tunnel.cpp 107).
shared_ptr_copy(c) == [c EXCEPT !.refs = @ + 1]
\* Faulty variant: the holder deletes the connection it points to.
shared_ptr_release_Destroys(c) == [st |-> "destroyed", refs |-> c.refs - 1]
\* ~shared_ptr run by delete handle: one reference less, and the connection
\* is destroyed with the last one.
shared_ptr_release(c) ==
    [st |-> IF c.refs = 1 THEN "destroyed" ELSE c.st, refs |-> c.refs - 1]
ConnectionAlive(hs) == \E k \in ConnectionHolders : hs[k].st = "live"

\* The construction call that yields a handle of the kind: every native
\* step succeeds.
ValidCertConfig ==
    [certificate |-> Buffer(NativePtr(1), 1, FALSE), private_key |-> Buffer(NativePtr(1), 1, FALSE),
     username |-> "", password |-> "", port |-> 0]
SuccessfulConstruction(kind) ==
    CASE kind = "mqtt" ->
           internal_mqtt_client(ValidCertConfig, NoStub, [strlen |-> "crash", string |-> "crash"])
      [] kind = "jobs" -> internal_jobs_client([i \in 1..Len(JobsClientRegs) |-> TRUE])
      [] kind = "job" -> internal_job([i \in 1..Len(JobRegs) |-> TRUE])
      [] kind = "tunnel_client" -> internal_tunnel_client(NoStub)
      [] kind = "tunnel" -> internal_tunnel(NoStub)

\* The adapters a construction function hands to the native library: the
\* lambdas it assigns or passes, and for the Jobs and tunnel-client
\* subscriptions the subscribe-completion adapter passed along with each.
AdaptersIn(trace) ==
    {trace[i].arg : i \in {j \in 1..Len(trace) : trace[j].op \in {"adapter", "subscribe"}}}
ConstructionAdapters(kind) ==
    AdaptersIn(SuccessfulConstruction(kind).trace)
      \cup (IF kind \in {"jobs", "job"} THEN {"subscribe_completed"} ELSE {})
      \cup (IF kind = "tunnel_client" THEN {"subscribe_complete_callback"} ELSE {})

\* The boundary callback an adapter invokes.
BoundaryFn(kind, a) ==
    CASE a = "OnConnectionCompleted" -> "on_completed"
      [] a = "OnConnectionClosed" -> "on_closed"
      [] a = "OnConnectionInterrupted" -> "on_interrupted"
      [] a = "OnConnectionResumed" -> "on_resumed"
      [] a = "subscribe_completed" ->
           (IF kind = "jobs" THEN "on_subscribe_completed_jobs" ELSE "on_subscribe_completed_job")
      [] a = "GetPendingJobExecutionsAccepted" -> "on_get_pending_job_executions_accepted"
      [] a = "GetPendingJobExecutionsRejected" -> "on_get_pending_job_executions_rejected"
      [] a = "JobExecutionsChangedEvents" -> "on_job_executions_changed_events"
      [] a = "NextJobExecutionChangedEvents" -> "on_next_job_execution_changed_events"
      [] a = "StartNextPendingJobExecutionAccepted" -> "on_start_next_pending_job_execution_accepted"
      [] a = "StartNextPendingJobExecutionRejected" -> "on_start_next_pending_job_execution_rejected"
      [] a = "DescribeJobExecutionAccepted" -> "on_describe_job_execution_accepted"
      [] a = "DescribeJobExecutionRejected" -> "on_describe_job_execution_rejected"
      [] a = "UpdateJobExecutionAccepted" -> "on_update_job_execution_accepted"
      [] a = "UpdateJobExecutionRejected" -> "on_update_job_execution_rejected"
      [] a = "TunnelsNotify" -> "on_subscribe_tunnel"
      [] a = "subscribe_complete_callback" -> "on_subscribe_complete"
      [] a = "OnConnectionSuccess" -> "on_connection_success"
      [] a = "OnConnectionFailure" -> "on_connection_failure"
      [] a = "OnConnectionShutdown" -> "on_connection_shutdown"
      [] a = "OnConnectionReset" -> "on_connection_reset"
      [] a = "OnSessionReset" -> "on_session_reset"
      [] a = "OnSendMessageComplete" -> "on_send_message_complete"
      [] a = "OnMessageReceived" -> "on_message_received"
      [] a = "OnStreamStarted" -> "on_stream_started"
      [] a = "OnStreamStopped" -> "on_stream_stopped"
      [] a = "on_message" -> "on_message"
      [] a \in {"on_sub_ack", "on_sub_ack_each"} -> "on_sub_ack"
      [] a \in {"on_unsubscribe", "on_publish"} -> a

\* The scalar arguments the native library fires an adapter with.  resp of
\* the tunnel notification: a null response, one of the three fields
\* missing, or a complete response.
NotifyResponses == {"nullptr", "no_token", "no_region", "no_mode", "complete"}
NoArgs == [none |-> TRUE]
EventArgs(a) ==
    CASE a = "OnConnectionCompleted" ->
           [error_code : ErrorCodes, return_code : ReturnCodes, session_present : BOOLEAN]
      [] a = "OnConnectionInterrupted" -> [error : ErrorCodes]
      [] a = "OnConnectionResumed" -> [return_code : ReturnCodes, session_present : BOOLEAN]
      [] a = "TunnelsNotify" -> [io_error : ErrorCodes, resp : NotifyResponses]
      [] a \in {"OnConnectionFailure", "OnConnectionReset", "OnSendMessageComplete",
                "OnStreamStarted", "subscribe_complete_callback"} -> [error_code : ErrorCodes]
      [] a \in {"OnConnectionClosed", "OnConnectionSuccess", "OnConnectionShutdown",
                "OnSessionReset", "OnMessageReceived", "OnStreamStopped", "on_message"} -> {NoArgs}
      [] a \in {"on_sub_ack", "on_sub_ack_each"} -> [error_code : ErrorCodes]
      [] OTHER -> [io_err : ErrorCodes]

\* One invocation of a boundary callback: the function, the context passed
\* as its first argument and the scalar arguments after it.
BoundaryCall(fn, ctx, args) == [fn |-> fn, ctx |-> ctx, args |-> args]
Body(calls, logs) == [calls |-> calls, logs |-> logs]

\* Faulty variant: on_completed is told error_code 0 whatever the event says.
AdapterBody_ZeroErrorCode(kind, a, ctx, args, n) ==
    IF a = "OnConnectionCompleted"
    THEN Body(<<BoundaryCall("on_completed", ctx, [args EXCEPT !.error_code = 0])>>, <<"debug">>)
    ELSE Body(<<BoundaryCall(BoundaryFn(kind, a), ctx, args)>>, <<>>)

\* Faulty variant: the suback of subscribe_multiple is reported once, for
\* its first topic, however many topics it carries.
AdapterBody_OncePerSuback(kind, a, ctx, args, n) ==
    IF a = "on_sub_ack_each"
    THEN Body(<<BoundaryCall("on_sub_ack", ctx, [topic |-> 1] @@ args)>>, <<>>)
    ELSE Body(<<BoundaryCall(BoundaryFn(kind, a), ctx, args)>>, <<>>)

\* What an adapter does when the native library fires it with args: the
\* boundary calls it makes, in order, and the log records it writes.
\* ctx: the context the lambda holds or reads; n: the number of topics of
\* the acknowledged subscription.
AdapterBody(kind, a, ctx, args, n) ==
    CASE a \in {"OnConnectionCompleted", "OnConnectionClosed",
                "OnConnectionInterrupted", "OnConnectionResumed"} ->
           \* mqtt.cpp 70-92: debug(...); on_x(interface, ...)
           Body(<<BoundaryCall(BoundaryFn(kind, a), ctx, args)>>, <<"debug">>)
      [] a = "TunnelsNotify" ->
           \* tunnel.cpp 328-368: subscribe_callback
           IF args.io_error # 0 THEN Body(<<>>, <<"error">>)
           ELSE IF args.resp = "nullptr" THEN Body(<<>>, <<"error">>)
           ELSE IF args.resp = "no_token" THEN Body(<<>>, <<"error">>)
           ELSE IF args.resp = "no_region" THEN Body(<<>>, <<"error">>)
           ELSE IF args.resp = "no_mode" THEN Body(<<>>, <<"error">>)
           ELSE Body(<<BoundaryCall("on_subscribe_tunnel", ctx, args)>>, <<>>)
      [] a = "on_sub_ack_each" ->
           \* mqtt.cpp 157-163: for (const auto &topic : topics) on_sub_ack(...)
           Body([i \in 1..n |-> BoundaryCall("on_sub_ack", ctx, [topic |-> i] @@ args)], <<>>)
      [] OTHER ->
           Body(<<BoundaryCall(BoundaryFn(kind, a), ctx, args)>>, <<>>)

\* Reading a member through a pointer to a deleted handle is undefined: the
\* process dies, the old value is still there, or something else is.
UseAfterFree == {"crash", "stale", "garbage"}

\* client->get_interface() inside a per-operation lambda, which holds the
\* client pointer; was is the value the member had while the handle lived.
get_interface(h, was, ub) ==
    IF h.st = "live" THEN h.interface
    ELSE IF ub = "stale" THEN was
    ELSE IF ub = "garbage" THEN "garbage"
    ELSE "crash"

\* An adapter registered by an operation on the MQTT client (subscribe,
\* subscribe_multiple): it holds the client pointer.  passed is the context
\* of that client when the operation was called.
OpAdapter(a, n, passed) == [a |-> a, n |-> n, passed |-> passed]
OneShot(p) == p.a \in {"on_sub_ack", "on_sub_ack_each"}

PacketIds == {0, 1}
TopicCounts == {0, 1, 2}

\* uint16_t subscribe(client, topic, qos): the packet id the native
\* Subscribe returns and the lambdas the native library keeps (none when it
\* fails synchronously).
subscribe(h, pid) ==
    [ret |-> pid,
     adapters |-> IF pid # 0
                  THEN {OpAdapter("on_message", 1, h.interface),
                        OpAdapter("on_sub_ack", 1, h.interface)}
                  ELSE {}]

\* uint16_t subscribe_multiple(client, topics, topics_len, qos)
subscribe_multiple(h, topics_len, pid) ==
    [ret |-> pid,
     adapters |-> IF pid # 0
                  THEN (IF topics_len > 0 THEN {OpAdapter("on_message", 1, h.interface)} ELSE {})
                          \cup {OpAdapter("on_sub_ack_each", topics_len, h.interface)}
                  ELSE {}]

\* ------------------------------------------------------------ native thread
\* The frames of the thread an event was fired on.  An adapter frame
\* records the event, the context passed to the construction of its handle,
\* what the adapter is to do and how far it got; crashed marks the end of
\* the process.
AdapterFrame(t, kind, a, args, ev, passed, body, crashed) ==
    [frame |-> "adapter", thread |-> t, kind |-> kind, a |-> a, args |-> args, ev |-> ev,
     passed |-> passed, calls |-> body.calls, logs |-> body.logs, done |-> 0,
     crashed |-> crashed]
CallbackFrame(t, c, ev) ==
    [frame |-> "callback", thread |-> t, fn |-> c.fn, ctx |-> c.ctx, args |-> c.args, ev |-> ev]

\* Faulty variant: the boundary call is handed to another thread.
CallbackThread_HandsOff(t) == CHOOSE u \in Threads : u # t

\* The thread the boundary callback runs on when the adapter runs on t: the
\* adapter calls the function directly.
CallbackThread(t) == t

\* Whether the native object the adapters of a handle are registered with
\* still exists: the connection for everything subscribed through it, the
\* tunnel for the tunnel's own adapters.
NativeAlive(hs, kind) ==
    IF kind = "tunnel" THEN hs[kind].st = "live" ELSE ConnectionAlive(hs)

\* ---------------------------------------------------------- event actions
\* A construction function returns a handle for the context ctx.  The Jobs
\* and tunnel clients are built from a live MQTT client.
NewHandle(kind, ctx) ==
    /\ stack = <<>>
    /\ handles[kind].st = "none"
    /\ Cardinality(Constructed(handles)) < MaxConstructed
    /\ kind \in {"jobs", "job", "tunnel_client"} => handles["mqtt"].st = "live"
    /\ SuccessfulConstruction(kind).ret = "handle"
    /\ handles' = [handles EXCEPT ![kind] = LiveHandle(ctx)]
    /\ conn' = IF kind = "mqtt" THEN shared_ptr_make
               ELSE IF kind \in ConnectionHolders THEN shared_ptr_copy(conn)
               ELSE conn
    /\ UNCHANGED <<pending, stack, fired, delivered>>
    /\ UNCHANGED <<bufVars, ctorVars, cb, requests>>

\* drop_*(handle): delete.  The connection goes, with everything registered
\* on it, when its last holder does.
DropHandle(kind) ==
    /\ stack = <<>>
    /\ handles[kind].st = "live"
    /\ handles' = [handles EXCEPT ![kind] = DroppedHandle(@)]
    /\ conn' = IF kind \in ConnectionHolders THEN shared_ptr_release(conn) ELSE conn
    /\ pending' = IF ConnectionAlive(handles') THEN pending ELSE {}
    /\ UNCHANGED <<stack, fired, delivered>>
    /\ UNCHANGED <<bufVars, ctorVars, cb, requests>>

\* An operation on the live MQTT client leaves its lambdas with the
\* native library.
Registers(r) ==
    /\ Cardinality(pending \cup r.adapters) <= MaxPending
    /\ pending' = pending \cup r.adapters
    /\ UNCHANGED <<handles, conn, stack, fired, delivered>>
    /\ UNCHANGED <<bufVars, ctorVars, cb, requests>>

Op_subscribe(pid) ==
    /\ stack = <<>>
    /\ handles["mqtt"].st = "live"
    /\ Registers(subscribe(handles["mqtt"], pid))

Op_subscribe_multiple(topics_len, pid) ==
    /\ stack = <<>>
    /\ handles["mqtt"].st = "live"
    /\ Registers(subscribe_multiple(handles["mqtt"], topics_len, pid))

\* The native library fires, on its thread t, an adapter registered at the
\* construction of the handle of the kind.
FireAdapter(t, kind) ==
    /\ stack = <<>>
    /\ fired < MaxEvents
    /\ handles[kind].st # "none"
    /\ NativeAlive(handles, kind)
    /\ \E a \in ConstructionAdapters(kind) : \E args \in EventArgs(a) :
          stack' = <<AdapterFrame(t, kind, a, args, fired + 1, handles[kind].captured,
                                  AdapterBody(kind, a, handles[kind].captured, args, 1),
                                  FALSE)>>
    /\ fired' = fired + 1
    /\ UNCHANGED <<handles, conn, pending, delivered>>
    /\ UNCHANGED <<bufVars, ctorVars, cb, requests>>

\* The native library fires a lambda left by subscribe or
\* subscribe_multiple.  The lambda reads the context through the client
\* pointer (unless its loop runs zero times).
FireOpAdapter(t) ==
    /\ stack = <<>>
    /\ fired < MaxEvents
    /\ ConnectionAlive(handles)
    /\ \E p \in pending : \E args \in EventArgs(p.a) :
       \E ub \in (IF handles["mqtt"].st = "live" \/ (p.a = "on_sub_ack_each" /\ p.n = 0)
                  THEN {"stale"} ELSE UseAfterFree) :
          LET reads == ~(p.a = "on_sub_ack_each" /\ p.n = 0)
              ctx == IF reads THEN get_interface(handles["mqtt"], p.passed, ub) ELSE p.passed
          IN /\ stack' = <<AdapterFrame(t, "mqtt", p.a, args, fired + 1, p.passed,
                                        IF ctx = "crash" THEN Body(<<>>, <<>>)
                                        ELSE AdapterBody("mqtt", p.a, ctx, args, p.n),
                                        ctx = "crash")>>
             /\ pending' = IF OneShot(p) THEN pending \ {p} ELSE pending
    /\ fired' = fired + 1
    /\ UNCHANGED <<handles, conn, delivered>>
    /\ UNCHANGED <<bufVars, ctorVars, cb, requests>>

\* The adapter makes its next boundary call.
EnterCallback ==
    /\ Len(stack) = 1
    /\ ~stack[1].crashed
    /\ stack[1].done < Len(stack[1].calls)
    /\ stack' = Append(stack, CallbackFrame(CallbackThread(stack[1].thread),
                                            stack[1].calls[stack[1].done + 1], stack[1].ev))
    /\ delivered' = Append(delivered, stack[1].ev)
    /\ UNCHANGED <<handles, conn, pending, fired>>
    /\ UNCHANGED <<bufVars, ctorVars, cb, requests>>

\* The boundary callback returns to the adapter.
BoundaryReturns ==
    /\ Len(stack) = 2
    /\ stack' = <<[stack[1] EXCEPT !.done = @ + 1]>>
    /\ UNCHANGED <<handles, conn, pending, fired, delivered>>
    /\ UNCHANGED <<bufVars, ctorVars, cb, requests>>

\* The adapter returns to the native library.
AdapterReturns ==
    /\ Len(stack) = 1
    /\ ~stack[1].crashed
    /\ stack[1].done = Len(stack[1].calls)
    /\ stack' = <<>>
    /\ UNCHANGED <<handles, conn, pending, fired, delivered>>
    /\ UNCHANGED <<bufVars, ctorVars, cb, requests>>

EventsInit ==
    /\ bufs = [s \in Slots |-> NoObject]
    /\ heap = HeapInit
    /\ native = NativeInit
    /\ last = LastRec("init", 0, 0, 0, FALSE, Buffer_default, 0)
    /\ call = IdleCall
    /\ nhandles = [k \in Kinds |-> 0]
    /\ cb = IdleCb
    /\ handles = [k \in Kinds |-> NoHandle]
    /\ conn = NoConnection
    /\ pending = {}
    /\ stack = <<>>
    /\ fired = 0
    /\ delivered = <<>>
    /\ requests = <<>>

EventsNext ==
    \/ \E kind \in Kinds, ctx \in Contexts : NewHandle(kind, ctx)
    \/ \E kind \in Kinds : DropHandle(kind)
    \/ \E pid \in PacketIds : Op_subscribe(pid)
    \/ \E n \in TopicCounts, pid \in PacketIds : Op_subscribe_multiple(n, pid)
    \/ \E t \in Threads, kind \in Kinds : FireAdapter(t, kind)
    \/ \E t \in Threads : FireOpAdapter(t)
    \/ EnterCallback
    \/ BoundaryReturns
    \/ AdapterReturns

SpecEvents == EventsInit /\ [][EventsNext]_vars

\* --------------------------------------------------------------- operations
MaxRequests == 2

\* Caller-supplied callback tokens and the members of the Jobs handles.
Tokens == {"tok1", "tok2"}
ThingNames == {"thingA", "thingB"}
JobIds == {"job-42", "job-7"}
InternalJobsClient(interface, thing_name) ==
    [interface |-> interface, thing_name |-> thing_name]
InternalJob(interface, thing_name, job_id) ==
    [interface |-> interface, thing_name |-> thing_name, job_id |-> job_id]

\* uint16_t unsubscribe(client, topic)
unsubscribe(h, pid) ==
    [ret |-> pid,
     adapters |-> IF pid # 0 THEN {OpAdapter("on_unsubscribe", 1, h.interface)} ELSE {}]

\* uint16_t publish(client, topic, qos, retain, data)
publish(h, pid) ==
    [ret |-> pid,
     adapters |-> IF pid # 0 THEN {OpAdapter("on_publish", 1, h.interface)} ELSE {}]

\* publish_complete(interface, callback, impl): the lambda holds copies of
\* the context and of the token and calls impl with them.
publish_complete(interface, callback, impl) ==
    [a |-> impl, interface |-> interface, callback |-> callback]

\* Faulty variant: true is returned whatever the native call said.
PublishResult_AlwaysTrue(native_ok, req, closure) ==
    [ret |-> TRUE, req |-> req, adapters |-> IF native_ok THEN {closure} ELSE {}]

\* return client->Publish...(req, qos, closure): the native boolean is
\* returned as it is; the native client keeps the closure for the puback
\* only when it accepted the publish.
PublishResult(native_ok, req, closure) ==
    [ret |-> native_ok, req |-> req, adapters |-> IF native_ok THEN {closure} ELSE {}]

\* bool publish_get_pending_executions(client, qos, callback)
publish_get_pending_executions(client, callback, native_ok) ==
    PublishResult(native_ok,
                  [ThingName |-> Some(client.thing_name)],
                  publish_complete(client.interface, callback, "on_publish_completed_jobs"))

\* bool publish_start_next_pending_execution(client, qos, callback, request)
publish_start_next_pending_execution(client, callback, request, native_ok) ==
    PublishResult(native_ok,
                  [ThingName |-> Some(client.thing_name),
                   StepTimeoutInMinutes |-> IF request.step_timeout # None
                                            THEN Some(request.step_timeout[1]) ELSE None],
                  publish_complete(client.interface, callback, "on_publish_completed_jobs"))

\* Faulty variant: the job id of the handle stands in for an absent one.
publish_describe_execution_HandleJobId(job, callback, request, native_ok) ==
    PublishResult(native_ok,
                  [ThingName |-> Some(job.thing_name),
                   ExecutionNumber |-> request.execution_number,
                   IncludeJobDocument |-> request.include_document,
                   JobId |-> IF request.job_id # None THEN request.job_id ELSE Some(job.job_id)],
                  publish_complete(job.interface, callback, "on_publish_completed_job"))

\* bool publish_describe_execution(job, qos, callback, request)
publish_describe_execution(job, callback, request, native_ok) ==
    PublishResult(native_ok,
                  [ThingName |-> Some(job.thing_name),
                   ExecutionNumber |-> IF request.execution_number # None
                                       THEN Some(request.execution_number[1]) ELSE None,
                   IncludeJobDocument |-> IF request.include_document # None
                                          THEN Some(request.include_document[1]) ELSE None,
                   JobId |-> IF request.job_id # None
                             THEN Some(request.job_id[1]) ELSE None],
                  publish_complete(job.interface, callback, "on_publish_completed_job"))

\* Faulty variant: *request.status is read without the null test.
publish_update_execution_StatusUnchecked(job, callback, request, native_ok) ==
    PublishResult(native_ok,
                  [ThingName |-> Some(job.thing_name),
                   ExecutionNumber |-> request.execution_number,
                   ExpectedVersion |-> request.expected_version,
                   IncludeJobDocument |-> request.include_document,
                   IncludeJobExecutionState |-> request.include_execution_state,
                   JobId |-> request.job_id,
                   Status |-> IF request.status # None
                              THEN Some(request.status[1]) ELSE Some("QUEUED"),
                   StepTimeoutInMinutes |-> request.step_timeout],
                  publish_complete(job.interface, callback, "on_publish_completed_job"))

\* bool publish_update_execution(job, qos, callback, request)
publish_update_execution(job, callback, request, native_ok) ==
    PublishResult(native_ok,
                  [ThingName |-> Some(job.thing_name),
                   ExecutionNumber |-> IF request.execution_number # None
                                       THEN Some(request.execution_number[1]) ELSE None,
                   ExpectedVersion |-> IF request.expected_version # None
                                       THEN Some(request.expected_version[1]) ELSE None,
                   IncludeJobDocument |-> IF request.include_document # None
                                          THEN Some(request.include_document[1]) ELSE None,
                   IncludeJobExecutionState |-> IF request.include_execution_state # None
                                                THEN Some(request.include_execution_state[1])
                                                ELSE None,
                   JobId |-> IF request.job_id # None
                             THEN Some(request.job_id[1]) ELSE None,
                   Status |-> IF request.status # None
                              THEN Some(request.status[1]) ELSE None,
                   StepTimeoutInMinutes |-> IF request.step_timeout # None
                                            THEN Some(request.step_timeout[1]) ELSE None],
                  publish_complete(job.interface, callback, "on_publish_completed_job"))

\* The requests a caller passes.
NextPendingRequests == [step_timeout : Opt({5})]
DescribeExecutionRequests ==
    [execution_number : Opt({1, 2}), include_document : Opt(BOOLEAN), job_id : Opt(JobIds)]
UpdateExecutionRequests ==
    [execution_number : Opt({1}), expected_version : Opt({3}), include_document : Opt({TRUE}),
     include_execution_state : Opt({FALSE}), job_id : Opt({"job-42"}),
     status : Opt({"SUCCEEDED"}), step_timeout : Opt({5})]

\* The update requests with no field, and with every field, set.
UpdateExecutionSamples ==
    {[execution_number |-> None, expected_version |-> None, include_document |-> None,
      include_execution_state |-> None, job_id |-> None, status |-> None,
      step_timeout |-> None],
     [execution_number |-> Some(1), expected_version |-> Some(3),
      include_document |-> Some(TRUE), include_execution_state |-> Some(FALSE),
      job_id |-> Some("job-42"), status |-> Some("SUCCEEDED"), step_timeout |-> Some(5)]}

\* ------------------------------------------- operations and their completions
\* The handles the operations are called on.
MqttObject == handles["mqtt"]
JobsObject == InternalJobsClient(handles["jobs"].interface, "thingA")
JobObject == InternalJob(handles["job"].interface, "thingB", "job-7")

\* A closure the native library holds for the request numbered attempt.
Outstanding(c, attempt) == [closure |-> c, attempt |-> attempt]
RequestRec(fn, kind, ctx, token, native_ret, ret) ==
    [fn |-> fn, kind |-> kind, ctx |-> ctx, token |-> token, native_ret |-> native_ret,
     ret |-> ret]

\* An operation was called on the handle of the kind: out is what it
\* returned and left with the native library.
Requested(fn, kind, token, native_ret, out) ==
    /\ requests' = Append(requests, RequestRec(fn, kind, handles[kind].interface, token,
                                               native_ret, out.ret))
    /\ pending' = pending \cup {Outstanding(c, Len(requests) + 1) : c \in out.adapters}
    /\ UNCHANGED <<handles, conn, stack, fired, delivered>>
    /\ UNCHANGED <<bufVars, ctorVars, cb>>

CanRequest == Len(requests) < MaxRequests

Req_subscribe ==
    /\ CanRequest
    /\ \E pid \in PacketIds :
          Requested("subscribe", "mqtt", "none", pid, subscribe(MqttObject, pid))

Req_subscribe_multiple ==
    /\ CanRequest
    /\ \E pid \in PacketIds, n \in TopicCounts :
          Requested("subscribe_multiple", "mqtt", "none", pid,
                    subscribe_multiple(MqttObject, n, pid))

Req_unsubscribe ==
    /\ CanRequest
    /\ \E pid \in PacketIds :
          Requested("unsubscribe", "mqtt", "none", pid, unsubscribe(MqttObject, pid))

Req_publish ==
    /\ CanRequest
    /\ \E pid \in PacketIds :
          Requested("publish", "mqtt", "none", pid, publish(MqttObject, pid))

Req_publish_get_pending_executions ==
    /\ CanRequest
    /\ \E callback \in Tokens, ok \in BOOLEAN :
          Requested("publish_get_pending_executions", "jobs", callback, ok,
                    publish_get_pending_executions(JobsObject, callback, ok))

Req_publish_start_next_pending_execution ==
    /\ CanRequest
    /\ \E callback \in Tokens, ok \in BOOLEAN, request \in NextPendingRequests :
          Requested("publish_start_next_pending_execution", "jobs", callback, ok,
                    publish_start_next_pending_execution(JobsObject, callback, request, ok))

Req_publish_describe_execution ==
    /\ CanRequest
    /\ \E callback \in Tokens, ok \in BOOLEAN, request \in DescribeExecutionRequests :
          Requested("publish_describe_execution", "job", callback, ok,
                    publish_describe_execution(JobObject, callback, request, ok))

Req_publish_update_execution ==
    /\ CanRequest
    /\ \E callback \in Tokens, ok \in BOOLEAN, request \in UpdateExecutionSamples :
          Requested("publish_update_execution", "job", callback, ok,
                    publish_update_execution(JobObject, callback, request, ok))

\* Faulty variant: the token is read from a slot the latest request wrote.
publish_complete_lambda_SharedToken(c, io_err) ==
    <<[fn |-> c.a, ctx |-> c.interface,
       token |-> requests[Len(requests)].token, io_err |-> io_err]>>

\* The body of the lambda publish_complete returned:
\* impl(interface, callback, io_err).
publish_complete_lambda(c, io_err) ==
    <<[fn |-> c.a, ctx |-> c.interface, token |-> c.callback, io_err |-> io_err]>>

\* The boundary calls a completion closure makes when the native library
\* invokes it with the error code.
CompletionCalls(c, io_err) ==
    IF c.a \in {"on_publish_completed_jobs", "on_publish_completed_job"}
    THEN publish_complete_lambda(c, io_err)
    ELSE [i \in 1..Len(AdapterBody("mqtt", c.a, get_interface(MqttObject, c.passed, "stale"),
                                   [error_code |-> io_err], c.n).calls) |->
            LET k == AdapterBody("mqtt", c.a, get_interface(MqttObject, c.passed, "stale"),
                                 [error_code |-> io_err], c.n).calls[i]
            IN [fn |-> k.fn, ctx |-> k.ctx, token |-> "none", io_err |-> io_err]]

\* The native library reports the outcome of an accepted attempt: its
\* completion closure runs, once, and is released.
Complete ==
    /\ pending # {}
    /\ \E p \in pending : \E io_err \in ErrorCodes :
          /\ p.closure.a # "on_message"
          /\ delivered' = delivered \o
                [i \in 1..Len(CompletionCalls(p.closure, io_err)) |->
                    [attempt |-> p.attempt, call |-> CompletionCalls(p.closure, io_err)[i]]]
          /\ pending' = pending \ {p}
    /\ UNCHANGED <<handles, conn, stack, fired, requests>>
    /\ UNCHANGED <<bufVars, ctorVars, cb>>

OpsInit ==
    /\ bufs = [s \in Slots |-> NoObject]
    /\ heap = HeapInit
    /\ native = NativeInit
    /\ last = LastRec("init", 0, 0, 0, FALSE, Buffer_default, 0)
    /\ call = IdleCall
    /\ nhandles = [k \in Kinds |-> 0]
    /\ cb = IdleCb
    /\ \E cj \in Contexts, ck \in Contexts :
          handles = [k \in Kinds |->
                        CASE k = "mqtt" -> LiveHandle("ctxA")
                          [] k = "jobs" -> LiveHandle(cj)
                          [] k = "job" -> LiveHandle(ck)
                          [] OTHER -> NoHandle]
    /\ conn = shared_ptr_copy(shared_ptr_copy(shared_ptr_make))
    /\ pending = {}
    /\ stack = <<>>
    /\ fired = 0
    /\ delivered = <<>>
    /\ requests = <<>>

OpsNext ==
    \/ Req_subscribe
    \/ Req_subscribe_multiple
    \/ Req_unsubscribe
    \/ Req_publish
    \/ Req_publish_get_pending_executions
    \/ Req_publish_start_next_pending_execution
    \/ Req_publish_describe_execution
    \/ Req_publish_update_execution
    \/ Complete

SpecOps == OpsInit /\ [][OpsNext]_vars

\* ------------------------------------------------ native request building
\* One call of a Jobs publish function, looked at on its own: the handle it
\* is called on, its arguments and what it built and returned.
PublishCall(fn, handle, callback, request, out) ==
    [fn |-> fn, handle |-> handle, callback |-> callback, request |-> request, out |-> out]
JobsObjects == {InternalJobsClient(c, n) : c \in Contexts, n \in ThingNames}
JobObjects == {InternalJob(c, n, j) : c \in Contexts, n \in ThingNames, j \in JobIds}

Call_publish_get_pending_executions ==
    /\ call = IdleCall
    /\ \E client \in JobsObjects, callback \in Tokens, ok \in BOOLEAN :
          call' = PublishCall("publish_get_pending_executions", client, callback, None,
                              publish_get_pending_executions(client, callback, ok))
    /\ UNCHANGED nhandles
    /\ UNCHANGED <<bufVars, cb, evVars>>

Call_publish_start_next_pending_execution ==
    /\ call = IdleCall
    /\ \E client \in JobsObjects, callback \in Tokens, ok \in BOOLEAN,
          request \in NextPendingRequests :
          call' = PublishCall("publish_start_next_pending_execution", client, callback, request,
                              publish_start_next_pending_execution(client, callback, request, ok))
    /\ UNCHANGED nhandles
    /\ UNCHANGED <<bufVars, cb, evVars>>

Call_publish_describe_execution ==
    /\ call = IdleCall
    /\ \E job \in JobObjects, callback \in Tokens, ok \in BOOLEAN,
          request \in DescribeExecutionRequests :
          call' = PublishCall("publish_describe_execution", job, callback, request,
                              publish_describe_execution(job, callback, request, ok))
    /\ UNCHANGED nhandles
    /\ UNCHANGED <<bufVars, cb, evVars>>

Call_publish_update_execution ==
    /\ call = IdleCall
    /\ \E job \in JobObjects, callback \in Tokens, ok \in BOOLEAN,
          request \in UpdateExecutionRequests :
          call' = PublishCall("publish_update_execution", job, callback, request,
                              publish_update_execution(job, callback, request, ok))
    /\ UNCHANGED nhandles
    /\ UNCHANGED <<bufVars, cb, evVars>>

\* The publish function has returned to its caller.
PublishReturns ==
    /\ call # IdleCall
    /\ call' = IdleCall
    /\ UNCHANGED nhandles
    /\ UNCHANGED <<bufVars, cb, evVars>>

RequestsInit ==
    /\ bufs = [s \in Slots |-> NoObject]
    /\ heap = HeapInit
    /\ native = NativeInit
    /\ last = LastRec("init", 0, 0, 0, FALSE, Buffer_default, 0)
    /\ call = IdleCall
    /\ nhandles = [k \in Kinds |-> 0]
    /\ cb = IdleCb
    /\ EvQuiet

RequestsNext ==
    \/ Call_publish_get_pending_executions
    \/ Call_publish_start_next_pending_execution
    \/ Call_publish_describe_execution
    \/ Call_publish_update_execution
    \/ PublishReturns

SpecRequests == RequestsInit /\ [][RequestsNext]_vars

\* ------------------------------------------------- construction properties
AllSucceed(res) == \A i \in DOMAIN res : res[i]
FirstFailure(res) == CHOOSE i \in DOMAIN res : ~res[i] /\ \A j \in 1..(i - 1) : res[j]
Subscriptions(trace) == SelectSeq(trace, LAMBDA e : e.op = "subscribe")
RegsOf(fn) == IF fn = "internal_jobs_client" THEN JobsClientRegs ELSE JobRegs

\* C6: internal_jobs_client returns a handle iff all six registrations
\* succeed and internal_job iff all four do; at the first failure the
\* function returns null, makes no further registration and no handle
\* object has been allocated.
C6_AllOrNothing ==
    call.fn \in {"internal_jobs_client", "internal_job"} =>
        LET regs == RegsOf(call.fn)
            made == Subscriptions(call.trace)
        IN /\ Len(call.res) = Len(regs)
           /\ call.ret \in {"handle", "null"}
           /\ call.ret = "handle" <=> AllSucceed(call.res)
           /\ AllSucceed(call.res) =>
                 /\ made = [i \in 1..Len(regs) |-> Ev("subscribe", regs[i])]
                 /\ call.made = 1
           /\ ~AllSucceed(call.res) =>
                 /\ made = [i \in 1..FirstFailure(call.res) |-> Ev("subscribe", regs[i])]
                 /\ ~DidOp(call.trace, "new")
                 /\ call.made = 0

\* The third of the six registrations fails while all others would succeed.
C6_Witness ==
    /\ call.fn = "internal_jobs_client"
    /\ call.res = <<TRUE, TRUE, FALSE, TRUE, TRUE, TRUE>>
    /\ call.ret = "null"

\* C7: internal_tunnel_client returns null when the native tunneling client
\* is unusable or the SubscribeToTunnelsNotify registration fails, and a
\* handle only when the client is usable and the subscription was made.
C7_TunnelClientNullOnFailure ==
    call.fn = "internal_tunnel_client" =>
        (call.ret = "handle" <=> (call.stub.usable /\ call.stub.subscribed))

\* C8: whenever a construction function returns null, an error was logged
\* before the return.
C8_NullIsLogged ==
    (call.fn \in {"internal_mqtt_client", "internal_jobs_client", "internal_job",
                  "internal_tunnel_client", "internal_tunnel"}
       /\ call.ret = "null") => Did(call.trace, "log", "error")

NonEmptyString(s) == s \notin {NULL, ""}
CertificateAuth(cfg) == ~is_empty(cfg.certificate) /\ ~is_empty(cfg.private_key)
PasswordAuth(cfg) == NonEmptyString(cfg.username) /\ NonEmptyString(cfg.password)

\* C9: for every ClientConfig with neither certificate+private_key nor
\* username+password both non-empty, a NULL username or password included,
\* internal_mqtt_client logs an error and returns null without building a
\* native config, creating a connection, registering an adapter or
\* calling Connect.
C9_NoAuthFailsFast ==
    (call.fn = "internal_mqtt_client"
       /\ ~CertificateAuth(call.cfg) /\ ~PasswordAuth(call.cfg)) =>
        /\ call.ret = "null"
        /\ call.trace = <<Ev("log", "debug"), Ev("log", "error")>>

Objects == {s \in Slots : bufs[s].st # "none"}
OwnersOf(a) == {s \in Objects : is_owned(bufs[s].b) /\ bufs[s].b.data = HeapPtr(a)}

\* C1: over any sequence of create, move construction, move assignment and
\* release, an allocation has at most one owning Buffer at a time and is
\* freed at most once; releasing an already released Buffer, or a
\* moved-from Buffer, frees nothing.
C1_SingleOwnerSingleFree ==
    /\ \A a \in AllocIds : Cardinality(OwnersOf(a)) <= 1 /\ heap[a].frees <= 1
    /\ last.op \in {"release_again", "release_moved"} => last.freed = 0

\* A created Buffer was moved to another object, which was released (one
\* free) and then released again.
C1_Witness ==
    /\ last.op = "release_again"
    /\ \E a \in AllocIds : heap[a].frees = 1
    /\ \E s \in Slots : bufs[s].st = "moved" /\ s # last.dst

\* C2: when the allocation succeeds, create(n) with n > 0 yields a Buffer
\* with is_owned() = true, len = n and is_empty() = false.
C2_CreateOwnsN ==
    (last.op = "create" /\ last.ok) =>
        LET b == bufs[last.dst].b
        IN /\ is_owned(b)
           /\ b.len = last.n
           /\ ~is_empty(b)
           /\ b.data.k = "heap" /\ heap[b.data.id].st = "live"

C2_Witness == last.op = "create" /\ last.ok /\ last.n = MaxSize

\* C3: a Buffer built from a native ByteBuf or ByteCursor is never owned,
\* also after moves, and releasing it neither frees nor modifies the
\* native memory it views.
C3_BorrowedNeverOwned ==
    /\ \A s \in Objects : bufs[s].b.data.k = "native" => ~is_owned(bufs[s].b)
    /\ native = NativeInit
    /\ (last.op \in {"release", "release_again", "release_moved"}
          /\ last.held.data.k = "native") => last.freed = 0

\* A borrowed view was moved into another object and that object released.
C3_Witness ==
    /\ last.op = "release"
    /\ last.held.data.k = "native"
    /\ last.held.len > 0
    /\ \E s \in Slots : s # last.dst /\ bufs[s].st = "moved"

\* C4: after b2 = move(b1) with b1 and b2 distinct, b1 is not owned and
\* empty (data null, len 0) and b2 holds the data, len and owned flag b1
\* held before.
C4_MoveTransfers ==
    (last.op \in {"move_ctor", "move_assign"} /\ last.dst # last.src) =>
        /\ ~is_owned(bufs[last.src].b)
        /\ is_empty(bufs[last.src].b)
        /\ bufs[last.src].b.data = NullPtr
        /\ bufs[last.dst].b = last.held

\* An owning Buffer was move-assigned to another object.
C4_Witness ==
    /\ last.op = "move_assign"
    /\ last.dst # last.src
    /\ is_owned(last.held)
    /\ last.held.len = MaxSize

\* ------------------------------------------------- Jobs adapter properties
\* C5: when the allocation fails, Buffer::create returns a Buffer with
\* is_empty() = true and is_owned() = false; the job-document adapters
\* look at is_empty() before copying, so on allocation failure no memcpy
\* goes through the Buffer and the delivered job_document is empty.
C5_AllocFailureIsEmpty ==
    (cb # IdleCb /\ cb.created # <<>> /\ ~cb.ok) =>
        /\ Len(cb.created) = 1
        /\ is_empty(cb.created[1])
        /\ ~is_owned(cb.created[1])
        /\ cb.copies = <<>>
        /\ is_empty(cb.info.job_document)
        /\ ~is_owned(cb.info.job_document)
        /\ \A a \in AllocIds : heap[a].st # "live"

\* A started execution carries a job document and the allocation for its
\* copy fails.
C5_Witness ==
    /\ cb # IdleCb
    /\ cb.fn = "on_start_next_pending_job_execution_accepted"
    /\ cb.resp.data.JobDocument
    /\ cb.created # <<>>
    /\ ~cb.ok

\* --------------------------------------------------------- event properties
\* The frames of the stack that are boundary callbacks, by position.
CallbackFrames == {i \in 1..Len(stack) : stack[i].frame = "callback"}

\* C11: every boundary callback an adapter of a handle invokes receives, as
\* its first argument, exactly the context pointer that was passed when the
\* handle (and so the adapter) was set up, for every event kind and after
\* any sequence of operations.
C11_ContextDelivered ==
    \A i \in CallbackFrames :
        /\ i > 1
        /\ stack[i].ctx = stack[i - 1].passed

\* The number of boundary callbacks made for the event ev.
RECURSIVE CountOf(_, _)
CountOf(s, ev) ==
    IF s = <<>> THEN 0
    ELSE (IF Head(s) = ev THEN 1 ELSE 0) + CountOf(Tail(s), ev)

\* C12: when N native events have been fired and their adapters have
\* returned, exactly N boundary callbacks have been invoked, one per event
\* and in the order of the events: none dropped, none duplicated.
C12_OneCallbackPerEvent ==
    stack = <<>> => delivered = [i \in 1..fired |-> i]

\* The boundary callback of each lifecycle event of the MQTT connection.
LifecycleCallback ==
    [OnConnectionCompleted |-> "on_completed", OnConnectionClosed |-> "on_closed",
     OnConnectionInterrupted |-> "on_interrupted", OnConnectionResumed |-> "on_resumed"]

\* C13: each native OnConnectionCompleted / closed / interrupted / resumed
\* event of a constructed MQTT client causes exactly one on_completed /
\* on_closed / on_interrupted / on_resumed invocation, with the construction
\* context and the event's arguments unchanged.
C13_LifecycleDelivered ==
    (stack # <<>> /\ stack[1].kind = "mqtt" /\ stack[1].a \in DOMAIN LifecycleCallback) =>
        /\ stack[1].calls = <<BoundaryCall(LifecycleCallback[stack[1].a],
                                           handles["mqtt"].captured, stack[1].args)>>
        /\ handles["mqtt"].captured \in Contexts
        /\ ~stack[1].crashed
        /\ CountOf(delivered, stack[1].ev) = stack[1].done + (Len(stack) - 1)
        /\ Len(stack) = 2 =>
              /\ stack[2].fn = LifecycleCallback[stack[1].a]
              /\ stack[2].ctx = handles["mqtt"].captured
              /\ stack[2].args = stack[1].args

C13_Witness ==
    /\ Len(stack) = 1
    /\ stack[1].kind = "mqtt"
    /\ stack[1].a = "OnConnectionCompleted"
    /\ stack[1].args.error_code = 0
    /\ stack[1].done = 1
    /\ delivered = <<stack[1].ev>>

\* C14: a boundary callback runs on the thread on which the native library
\* fired the adapter, while that adapter is still on the stack waiting for
\* it: it is entered and returns before the adapter returns, and the event
\* is never handed to another thread.
C14_SynchronousSameThread ==
    \A i \in CallbackFrames :
        /\ i > 1
        /\ stack[i - 1].frame = "adapter"
        /\ stack[i].thread = stack[i - 1].thread
        /\ stack[i - 1].done < Len(stack[i - 1].calls)
        /\ stack[i].ev = stack[i - 1].ev

C14_Witness ==
    /\ Len(stack) = 2
    /\ stack[2].frame = "callback"
    /\ stack[2].thread = "loop2"
    /\ stack[1].kind = "jobs"

\* ----------------------------------------------------- operation properties
MqttOps == {"subscribe", "subscribe_multiple", "unsubscribe", "publish"}

\* The value an operation returned says the attempt failed synchronously.
FailedSynchronously(r) == IF r.fn \in MqttOps THEN r.ret = 0 ELSE r.ret = FALSE

\* C16: every operation returns the packet id or boolean of its native call
\* unchanged, and when that value is 0 or false no adapter of that attempt
\* is left registered and none is ever invoked.
C16_FailedAttemptNeverCompletes ==
    \A i \in 1..Len(requests) :
        /\ requests[i].ret = requests[i].native_ret
        /\ FailedSynchronously(requests[i]) =>
              /\ \A p \in pending : p.attempt # i
              /\ \A j \in 1..Len(delivered) : delivered[j].attempt # i

C16_Witness ==
    /\ Len(requests) = 2
    /\ requests[1].fn = "publish"
    /\ FailedSynchronously(requests[1])
    /\ requests[2].fn = "publish_get_pending_executions"
    /\ ~FailedSynchronously(requests[2])
    /\ Len(delivered) = 1
    /\ pending = {}

\* C17: each publish-completion callback of the Jobs functions carries the
\* context of the handle and the token of the very request that completed,
\* whatever the order in which the outstanding requests complete.
C17_CompletionMatchesRequest ==
    \A j \in 1..Len(delivered) :
        LET d == delivered[j]
            r == requests[d.attempt]
        IN r.kind \in {"jobs", "job"} =>
              /\ d.call.ctx = r.ctx
              /\ d.call.token = r.token
              /\ d.call.fn = (IF r.kind = "jobs" THEN "on_publish_completed_jobs"
                              ELSE "on_publish_completed_job")

C17_Witness ==
    /\ Len(requests) = 2
    /\ requests[1].kind = "jobs"
    /\ requests[2].kind = "job"
    /\ requests[1].token # requests[2].token
    /\ requests[1].ctx # requests[2].ctx
    /\ Len(delivered) = 2
    /\ delivered[1].attempt = 2
    /\ delivered[2].attempt = 1

\* A field of the native request is present exactly when the request
\* pointer is non-null, and then holds the value pointed to.
PresentIff(field, pointer) ==
    /\ (field # None) <=> (pointer # None)
    /\ pointer # None => field[1] = pointer[1]

\* C18: publish_describe_execution builds a native request whose
\* ExecutionNumber, IncludeJobDocument and JobId are present exactly when the
\* request pointer is non-null, with the pointed-to value (the job id of
\* the handle never stands in), and whose ThingName is the thing name of the
\* handle; execution_number = null with job_id = "job-42" gives
\* ExecutionNumber absent and JobId = "job-42".
C18_DescribeRequestBuilt ==
    call.fn = "publish_describe_execution" =>
        /\ PresentIff(call.out.req.ExecutionNumber, call.request.execution_number)
        /\ PresentIff(call.out.req.IncludeJobDocument, call.request.include_document)
        /\ PresentIff(call.out.req.JobId, call.request.job_id)
        /\ call.out.req.ThingName = Some(call.handle.thing_name)
        /\ (call.request.execution_number = None /\ call.request.job_id = Some("job-42")) =>
              /\ call.out.req.ExecutionNumber = None
              /\ call.out.req.JobId = Some("job-42")

C18_Witness ==
    /\ call.fn = "publish_describe_execution"
    /\ call.request.execution_number = None
    /\ call.request.job_id = Some("job-42")
    /\ call.handle.job_id = "job-7"
    /\ call.out.req.JobId = Some("job-42")

\* ------------------------------------------------------- POD properties
SummaryPointers ==
    {"job_id", "version_number", "execution_number", "started_at", "queued_at",
     "last_updated_at"}
RejectedPointers == {"timestamp", "code", "message", "client_token"}

\* The data pointer of a Buffer refers to memory that has not been freed.
BufferLive(b) ==
    CASE b.data.k = "heap" -> heap[b.data.id].st = "live"
      [] b.data.k = "native" -> native[b.data.id].st = "live"
      [] OTHER -> TRUE

\* C15: while a boundary callback runs, every non-null pointer in the POD
\* it was handed refers to an object that still exists: the fields of each
\* JobExecutionSummary entry, the fields of a Rejected, the data of the
\* job document of a JobInfo.
C15_PointersLive ==
    cb # IdleCb =>
        /\ cb.has_info => BufferLive(cb.info.job_document)
        /\ cb.fn \in RejectedCallbacks =>
              \A f \in RejectedPointers :
                  cb.pod[f] # NullField => cb.pod[f].obj \in cb.live
        /\ cb.fn = "on_get_pending_job_executions_accepted" =>
              /\ cb.pod.queued_jobs.obj \in cb.live
              /\ cb.pod.progress_jobs.obj \in cb.live
              /\ \A i \in 1..cb.pod.queued_size : \A f \in SummaryPointers :
                    cb.pod.queued_jobs.entries[i][f] # NullField =>
                        cb.pod.queued_jobs.entries[i][f].obj \in cb.live
              /\ \A i \in 1..cb.pod.progres_size : \A f \in SummaryPointers :
                    cb.pod.progress_jobs.entries[i][f] # NullField =>
                        cb.pod.progress_jobs.entries[i][f].obj \in cb.live

\* The native field behind each pointer of a Rejected.
RejectedField ==
    [timestamp |-> "Timestamp", code |-> "Code", message |-> "Message",
     client_token |-> "ClientToken"]

\* The value a pointer into the native error refers to.
Deref(ptr, rejected) == rejected[ptr.field][1]

\* C19: each of code, message, timestamp and client_token of the Rejected
\* handed to a rejection callback is non-null exactly when the native field
\* is present, and then refers to that native field; with only
\* Code = InvalidStateTransition and Message = "bad state" present, code and
\* message refer to these values and timestamp and client_token are null.
C19_RejectedMirrorsNative ==
    (cb # IdleCb /\ cb.fn \in RejectedCallbacks) =>
        /\ \A f \in RejectedPointers :
              /\ (cb.pod[f] # NullField) <=> (cb.resp[RejectedField[f]] # None)
              /\ cb.pod[f] # NullField =>
                    /\ cb.pod[f] = FieldPtr("rejected", 0, RejectedField[f])
                    /\ "rejected" \in cb.live
        /\ (/\ cb.resp.Code = Some("InvalidStateTransition")
            /\ cb.resp.Message = Some("bad state")
            /\ cb.resp.Timestamp = None
            /\ cb.resp.ClientToken = None) =>
              /\ cb.pod.code # NullField
              /\ Deref(cb.pod.code, cb.resp) = "InvalidStateTransition"
              /\ cb.pod.message # NullField
              /\ Deref(cb.pod.message, cb.resp) = "bad state"
              /\ cb.pod.timestamp = NullField
              /\ cb.pod.client_token = NullField

C19_Witness ==
    /\ cb # IdleCb
    /\ cb.fn = "on_update_job_execution_rejected"
    /\ cb.resp.Code = Some("InvalidStateTransition")
    /\ cb.resp.Message = Some("bad state")
    /\ cb.resp.Timestamp = None
    /\ cb.resp.ClientToken = None
    /\ cb.pod.message = FieldPtr("rejected", 0, "Message")

\* The native field behind each pointer of a JobExecutionSummary.
SummaryField ==
    [job_id |-> "JobId", version_number |-> "VersionNumber",
     execution_number |-> "ExecutionNumber", started_at |-> "StartedAt",
     queued_at |-> "QueuedAt", last_updated_at |-> "LastUpdatedAt"]

\* The array of size entries mirrors the native list: it exists, has size
\* entries, size is the length of the list (0 when absent), and entry i
\* has a field exactly when element i of the list has it, taken from
\* element i.
MirrorsList(array, size, list) ==
    /\ size = IF list.present THEN Len(list.items) ELSE 0
    /\ array.obj \in cb.live
    /\ Len(array.entries) = size
    /\ \A i \in 1..size : \A f \in SummaryPointers :
          /\ (array.entries[i][f] # NullField) <=> list.items[i][SummaryField[f]]
          /\ array.entries[i][f] # NullField =>
                /\ array.entries[i][f].idx = i
                /\ array.entries[i][f].field = SummaryField[f]

\* C20: the JobsSummary handed to on_get_pending_job_executions_accepted
\* has queued_size and the progress size equal to the lengths of QueuedJobs
\* and InProgressJobs (0 when absent or empty), entry i of each sequence
\* built from entry i of the native list, and both sequence pointers
\* referring to existing (possibly zero-length) arrays during the callback.
C20_SummaryMirrorsResponse ==
    (cb # IdleCb /\ cb.fn = "on_get_pending_job_executions_accepted") =>
        /\ MirrorsList(cb.pod.queued_jobs, cb.pod.queued_size, cb.resp.QueuedJobs)
        /\ MirrorsList(cb.pod.progress_jobs, cb.pod.progres_size, cb.resp.InProgressJobs)
        /\ cb.pod.queued_jobs.obj # cb.pod.progress_jobs.obj

C20_Witness ==
    /\ cb # IdleCb
    /\ cb.fn = "on_get_pending_job_executions_accepted"
    /\ cb.pod.queued_size = 2
    /\ cb.pod.progres_size = 0
    /\ cb.resp.InProgressJobs.present
    /\ cb.resp.QueuedJobs.items[1] # cb.resp.QueuedJobs.items[2]
    /\ cb.pod.progress_jobs.obj \in cb.live

\* ---------------------------------------------------- JobInfo properties
\* The native field behind each optional pointer of a JobInfo.
JobInfoField ==
    [job_id |-> "JobId", status |-> "Status", version_number |-> "VersionNumber",
     queue_at |-> "QueuedAt", thing_name |-> "ThingName",
     execution_number |-> "ExecutionNumber", last_updated_at |-> "LastUpdatedAt",
     started_at |-> "StartedAt"]

\* C21: in a JobInfo built from a native JobExecutionData each of job_id,
\* status, version_number, queue_at, thing_name, execution_number,
\* last_updated_at and started_at is non-null exactly when the native field
\* is present, and job_document is non-empty exactly when the native
\* JobDocument is present.
C21_JobInfoMirrorsData ==
    (cb # IdleCb /\ cb.has_info /\ cb.fn # "on_update_job_execution_accepted"
        /\ cb.resp.Execution) =>
        /\ \A f \in DOMAIN JobInfoField :
              (cb.info[f] # nullptr) <=> cb.resp.data[JobInfoField[f]]
        /\ ~is_empty(cb.info.job_document) <=> cb.resp.data.JobDocument

\* C22: on_update_job_execution_accepted receives a client_token that is
\* non-null exactly when the response has a ClientToken, and a JobInfo whose
\* job_document is non-empty exactly when the response has a JobDocument.
C22_UpdateMirrorsResponse ==
    (cb # IdleCb /\ cb.fn = "on_update_job_execution_accepted") =>
        /\ (cb.client_token # nullptr) <=> cb.resp.ClientToken
        /\ ~is_empty(cb.info.job_document) <=> cb.resp.JobDocument

\* ------------------------------------------------ Buffers given to callbacks
\* The native ByteBuf / ByteCursor values an event carries.
ByteBufs == {[buffer |-> NativePtr(r), len |-> n] : r \in Regions, n \in 0..MaxSize}
ByteCursors == {[ptr |-> NativePtr(r), len |-> n] : r \in Regions, n \in 0..MaxSize}

\* Faulty variant: the Buffer made from a present cursor claims ownership.
buffer_Owning(id) ==
    IF id # None THEN Buffer(id[1].ptr, id[1].len, TRUE) ELSE Buffer_default

\* Buffer buffer(crt::Optional<crt::ByteCursor> id) (tunnel.cpp 214-224)
buffer(id) ==
    IF id # None THEN Buffer_from_ByteCursor(id[1]) ELSE Buffer_default

\* The tunnel adapters that hand Buffers to their callback, and how many
\* optional cursors each passes through buffer() (tunnel.cpp 226-326).
TunnelBufferArgs ==
    [on_connection_success |-> 3, on_connection_reset |-> 1, on_message_received |-> 2,
     on_stream_started |-> 1, on_stream_stopped |-> 1]

\* A boundary callback in progress that was handed the Buffers bs by value.
ViewCb(fn, bs) ==
    CbRec(fn, nullptr, FALSE, Built(JobInfo_default, heap, native, <<>>, <<>>),
          nullptr, 0, <<>>, TRUE) @@ [buffers |-> bs]

\* The message lambda of subscribe / subscribe_multiple (mqtt.cpp 113-165):
\* on_message(..., Buffer(payload), ...).
on_message_lambda(payload) ==
    Enter(ViewCb("on_message", <<Buffer_from_ByteBuf(payload)>>),
          Built(JobInfo_default, heap, native, <<>>, <<>>))

\* connection_success, connection_reset, message_received, stream_started,
\* stream_stopped: every Buffer argument is buffer(optional cursor).
tunnel_buffers_lambda(fn, ids) ==
    Enter(ViewCb(fn, [i \in 1..Len(ids) |-> buffer(ids[i])]),
          Built(JobInfo_default, heap, native, <<>>, <<>>))

\* send_message_complete: Buffer(data.sendMessageCompleteData->getMessageType()).
send_message_complete_lambda(message_type) ==
    Enter(ViewCb("on_send_message_complete", <<Buffer_from_ByteCursor(message_type)>>),
          Built(JobInfo_default, heap, native, <<>>, <<>>))

Fire_on_message ==
    /\ CanFire
    /\ \E payload \in ByteBufs : on_message_lambda(payload)

Fire_tunnel_buffers ==
    /\ CanFire
    /\ \E fn \in DOMAIN TunnelBufferArgs :
          \E ids \in [1..TunnelBufferArgs[fn] -> Opt(ByteCursors)] :
              tunnel_buffers_lambda(fn, ids)

Fire_send_message_complete ==
    /\ CanFire
    /\ \E message_type \in ByteCursors : send_message_complete_lambda(message_type)

DeliveredNext ==
    \/ Fire_describe_job_execution_accepted
    \/ Fire_update_job_execution_accepted
    \/ Fire_start_next_pending_job_execution
    \/ Fire_next_job_execution_changed_events
    \/ Fire_on_message
    \/ Fire_tunnel_buffers
    \/ Fire_send_message_complete
    \/ CallbackReturns

SpecDelivered == JobsInit /\ [][DeliveredNext]_vars

\* ------------------------------------------------ delivered Buffer properties
\* The Buffers a callback in progress was handed.
DeliveredBuffers(c) ==
    IF "buffers" \in DOMAIN c THEN c.buffers
    ELSE IF c.has_info THEN <<c.info.job_document>>
    ELSE <<>>
\* The Buffers the adapter of the callback in progress made with Buffer::create.
CreatedBuffers(c) == {c.created[i] : i \in DOMAIN c.created}
\* The native document the JobInfo of callback c was built from is present.
DocumentPresent(c) ==
    IF c.fn = "on_update_job_execution_accepted" THEN c.resp.JobDocument
    ELSE c.resp.Execution /\ c.resp.data.JobDocument

\* C23 as stated: every Buffer handed to a callback is a non-owning view
\* (is_owned() is false) and no adapter makes a delivered Buffer with create.
C23_DeliveredAreViews ==
    cb # IdleCb =>
        /\ \A i \in DOMAIN DeliveredBuffers(cb) : ~is_owned(DeliveredBuffers(cb)[i])
        /\ cb.created = <<>>

\* C23: the MQTT message payload and every tunnel Buffer handed to a callback
\* is a non-owning view of native memory (or the empty Buffer); the
\* job_document of a delivered JobInfo is an owned copy made with
\* Buffer::create, live during the callback, whenever the native document is
\* present and the allocation succeeded, and empty and non-owning otherwise.
C23_DeliveredBuffers ==
    cb # IdleCb =>
        /\ "buffers" \in DOMAIN cb =>
              /\ cb.created = <<>>
              /\ \A i \in DOMAIN cb.buffers :
                    /\ ~is_owned(cb.buffers[i])
                    /\ cb.buffers[i].data.k # "heap"
        /\ ("buffers" \notin DOMAIN cb /\ cb.has_info) =>
              LET d == cb.info.job_document
              IN /\ is_owned(d) <=> (DocumentPresent(cb) /\ cb.ok)
                 /\ is_owned(d) <=> ~is_empty(d)
                 /\ is_owned(d) =>
                       /\ d \in CreatedBuffers(cb)
                       /\ d.data.k = "heap"
                       /\ heap[d.data.id].st = "live"
                 /\ ~is_owned(d) => d = Buffer_default

C23_Witness ==
    /\ cb # IdleCb
    /\ "buffers" \notin DOMAIN cb
    /\ cb.has_info
    /\ is_owned(cb.info.job_document)
    /\ cb.info.job_document \in CreatedBuffers(cb)

\* ------------------------------------------------- connection properties
LiveHolders(hs) == {k \in ConnectionHolders : hs[k].st = "live"}

\* C24: each drop_* releases exactly one reference to the native MQTT
\* connection, and the connection is destroyed only when the MQTT handle and
\* every Jobs, Job and TunnelClient object created from it have been
\* released (and is destroyed then).
C24_ConnectionRefs ==
    /\ [](/\ conn.refs = Cardinality(LiveHolders(handles))
          /\ conn.st = "destroyed" <=>
                (handles["mqtt"].st = "dropped" /\ LiveHolders(handles) = {}))
    /\ [][\A k \in ConnectionHolders :
             (handles[k].st = "live" /\ handles'[k].st = "dropped") =>
                 conn'.refs = conn.refs - 1]_vars

C24_Witness ==
    /\ conn.st = "destroyed"
    /\ handles["mqtt"].st = "dropped"
    /\ \E k \in ConnectionHolders \ {"mqtt"} : handles[k].st = "dropped"

\* ------------------------------------------------------- into and sending
\* Where the copies made by into() live: native allocations beside the
\* regions that back the borrowed views.
MaxCopies == 1
CopyRegions == (NNative + 1)..(NNative + MaxCopies)
FreshRegions(nat) == CopyRegions \ DOMAIN nat

\* Aws::Crt::ByteBufNewCopy(allocator, array, len): a new native allocation
\* holding a copy of the len bytes at array; a null array gives the empty
\* ByteBuf and allocates nothing.  origin names the bytes that were copied.
ByteBufNewCopy(nat, array, len, r) ==
    IF array = NullPtr
    THEN [buf |-> [buffer |-> NullPtr, len |-> 0], native |-> nat]
    ELSE [buf |-> [buffer |-> NativePtr(r), len |-> len],
          native |-> nat @@ (r :> [st |-> "live", size |-> len, frees |-> 0, writes |-> 0,
                                   origin |-> array])]

\* Faulty variant: the ByteBuf refers to the Buffer's own bytes.
into_Borrowing(b, nat, r) ==
    [buf |-> [buffer |-> b.data, len |-> b.len], native |-> nat]

\* ByteBuf Buffer::into() const
into(b, nat, r) == ByteBufNewCopy(nat, b.data, b.len, r)

\* crt::ByteCursorFromByteBuf
ByteCursorFromByteBuf(buf) == [ptr |-> buf.buffer, len |-> buf.len]

\* int send_message(internal_tunnel, connection_id, Buffer payload): the
\* tunneling::Message handed to SendMessage, made from payload.into().
send_message(payload, connection_id, nat, r) ==
    LET c == into(payload, nat, r)
    IN [message |-> [fn |-> "send_message", payload |-> ByteCursorFromByteBuf(c.buf),
                     connection_id |-> connection_id],
        native |-> c.native]

\* uint16_t publish(client, topic, qos, retain, Buffer data): the payload
\* handed to connection->Publish is data.into().
publish_data(data, nat, r) ==
    LET c == into(data, nat, r)
    IN [message |-> [fn |-> "publish", payload |-> ByteCursorFromByteBuf(c.buf),
                     connection_id |-> 0],
        native |-> c.native]

\* The storage a pointer refers to is allocated.
Allocated(p) ==
    CASE p.k = "heap" -> heap[p.id].st = "live"
      [] p.k = "native" -> p.id \in DOMAIN native /\ native[p.id].st = "live"
      [] OTHER -> TRUE

\* A caller passes the Buffer object in slot s: a constructed object whose
\* bytes can be read.
Passable(s) == Usable(s) /\ Allocated(bufs[s].b.data)

\* b.is_empty() on the object in slot s
IsEmpty(s) ==
    /\ Usable(s)
    /\ last' = LastRec("is_empty", s, 0, 0, is_empty(bufs[s].b), bufs[s].b, 0)
    /\ UNCHANGED <<bufs, heap, native>>
    /\ UNCHANGED <<call, nhandles, cb, evVars>>

\* b.is_owned() on the object in slot s
IsOwned(s) ==
    /\ Usable(s)
    /\ last' = LastRec("is_owned", s, 0, 0, is_owned(bufs[s].b), bufs[s].b, 0)
    /\ UNCHANGED <<bufs, heap, native>>
    /\ UNCHANGED <<call, nhandles, cb, evVars>>

\* b.into() on the object in slot s; the ByteBuf goes to the caller.
Into(s) ==
    /\ Passable(s)
    /\ FreshRegions(native) # {}
    /\ LET c == into(bufs[s].b, native, CHOOSE r \in FreshRegions(native) : TRUE)
       IN /\ native' = c.native
          /\ last' = LastRec("into", s, 0, c.buf.len, c.buf.buffer # NullPtr, bufs[s].b, 0)
    /\ UNCHANGED <<bufs, heap>>
    /\ UNCHANGED <<call, nhandles, cb, evVars>>

\* A message the native library holds: what it was given and the Buffer
\* object of the caller it was made from.
InFlight(message, s) == [message |-> message, slot |-> s, sent |-> bufs[s].b]

\* send_message / publish called with the Buffer in slot s; the call
\* returns and the message stays with the native library.
Sends(fn, s, r) ==
    /\ native' = r.native
    /\ requests' = Append(requests, InFlight(r.message, s))
    /\ last' = LastRec(fn, s, 0, r.message.payload.len, TRUE, bufs[s].b, 0)
    /\ UNCHANGED <<bufs, heap>>
    /\ UNCHANGED <<handles, conn, pending, stack, fired, delivered>>
    /\ UNCHANGED <<call, nhandles, cb>>

Call_send_message(s, connection_id) ==
    /\ Passable(s)
    /\ FreshRegions(native) # {}
    /\ Len(requests) < MaxCopies
    /\ Sends("send_message", s,
             send_message(bufs[s].b, connection_id, native,
                          CHOOSE r \in FreshRegions(native) : TRUE))

Call_publish(s) ==
    /\ Passable(s)
    /\ FreshRegions(native) # {}
    /\ Len(requests) < MaxCopies
    /\ Sends("publish", s,
             publish_data(bufs[s].b, native, CHOOSE r \in FreshRegions(native) : TRUE))

\* The Buffer operations, the queries and into() among them.  What an
\* operation does to the allocators does not depend on how long a non-empty
\* Buffer is or which native region it views: lengths are 0 or 1 here.
BufferOpsNext ==
    \/ \E s \in Slots : ConstructDefault(s)
    \/ \E s \in Slots, n \in {0, 1} : ConstructFromByteBuf(s, 1, n)
    \/ \E s \in Slots, n \in {0, 1} : ConstructFromByteCursor(s, 1, n)
    \/ \E s \in Slots, ok \in BOOLEAN : Create(s, 1, ok)
    \/ \E d \in Slots, s \in Slots : MoveCtor(d, s)
    \/ \E d \in Slots, s \in Slots : MoveAsgn(d, s)
    \/ \E s \in Slots : Release(s)
    \/ \E s \in Slots : IsEmpty(s)
    \/ \E s \in Slots : IsOwned(s)
    \/ \E s \in Slots : Into(s)

SpecBufferOps == BufInit /\ [][BufferOpsNext]_vars

\* A caller that makes Buffers (empty or one byte long, borrowed or owned),
\* sends them and releases them.
SendNext ==
    \/ \E s \in Slots, n \in {0, 1} : ConstructFromByteBuf(s, 1, n)
    \/ \E s \in Slots, ok \in BOOLEAN : Create(s, 1, ok)
    \/ \E s \in Slots : Release(s)
    \/ \E s \in Slots : Call_send_message(s, 1)
    \/ \E s \in Slots : Call_publish(s)

SpecSend == BufInit /\ [][SendNext]_vars

\* ----------------------------------------------------- sending properties
\* The storage the payload of a message refers to, as the allocators see it.
PayloadStorage(m) ==
    CASE m.payload.ptr.k = "native" /\ m.payload.ptr.id \in DOMAIN native ->
           native[m.payload.ptr.id]
      [] m.payload.ptr.k = "heap" -> heap[m.payload.ptr.id]
      [] OTHER -> [st |-> "none"]

\* C25: send_message and publish hand the native library a copy of the
\* payload in native-owned storage (made by into()) and leave the caller's
\* Buffer as it was; releasing that Buffer afterwards, or anything else the
\* caller does with its Buffers, leaves the storage of every message in
\* flight untouched.
C25_SendCopies ==
    /\ [](\A i \in DOMAIN requests :
            LET m == requests[i].message
                sent == requests[i].sent
            IN /\ m.payload.len = (IF sent.data = NullPtr THEN 0 ELSE sent.len)
               /\ sent.data # NullPtr =>
                     /\ m.payload.ptr.k = "native"
                     /\ m.payload.ptr.id \in CopyRegions
                     /\ native[m.payload.ptr.id].st = "live"
                     /\ native[m.payload.ptr.id].size = sent.len
                     /\ native[m.payload.ptr.id].origin = sent.data
                     /\ \A s \in Slots : bufs[s].b.data # m.payload.ptr)
    /\ [][/\ Len(requests') > Len(requests) => (bufs' = bufs /\ heap' = heap)
          /\ \A i \in DOMAIN requests :
                PayloadStorage(requests[i].message)' = PayloadStorage(requests[i].message)]_vars

C25_Witness ==
    \E i \in DOMAIN requests :
        /\ requests[i].sent.owned
        /\ bufs[requests[i].slot].st = "destroyed"
        /\ heap[requests[i].sent.data.id].st = "freed"
        /\ PayloadStorage(requests[i].message).st = "live"

\* ------------------------------------------------------ allocator effects
QueryOps == {"default", "borrow_buf", "borrow_cursor", "move_ctor", "move_assign",
             "is_empty", "is_owned"}
ReleaseOps == {"release", "release_again", "release_moved"}

\* C26 as stated: the borrowed and default constructors, the moves,
\* is_empty, is_owned and into() allocate nothing and free nothing.
C26_OnlyCreateAndReleaseAllocate ==
    [][last'.op \in QueryOps \cup {"into"} => (heap' = heap /\ native' = native)]_vars

\* C26: only create and release touch the allocator behind create_buffer /
\* destroy_buffer; the borrowed and default constructors, the moves,
\* is_empty and is_owned touch no memory at all; into() frees nothing and
\* leaves the Buffer allocator alone, but allocates one native copy whenever
\* the Buffer's data is not null.
C26_AllocatorEffects ==
    [][/\ last'.op \in QueryOps => (heap' = heap /\ native' = native)
       /\ heap' # heap => last'.op \in {"create"} \cup ReleaseOps
       /\ last'.op = "into" =>
             /\ heap' = heap
             /\ bufs' = bufs
             /\ \A r \in DOMAIN native : r \in DOMAIN native' /\ native'[r] = native[r]
             /\ Cardinality(DOMAIN native' \ DOMAIN native) =
                   (IF last'.held.data # NullPtr THEN 1 ELSE 0)]_vars

C26_Witness ==
    /\ last.op = "into"
    /\ last.held.data # NullPtr
    /\ \E r \in CopyRegions : r \in DOMAIN native /\ native[r].origin = last.held.data

\* ------------------------------------------------- error report properties
ConstructionFunctions ==
    {"internal_mqtt_client", "internal_jobs_client", "internal_job",
     "internal_tunnel_client", "internal_tunnel"}

\* C27: a construction function always ends by returning, a handle or the
\* null that reports the failure; it never ends the process instead.
C27_FailureByReturnValue ==
    call.fn \in ConstructionFunctions => call.ret \in {"handle", "null"}

\* ---------------------------------------------------- capture properties
PerOperationAdapters == {"on_message", "on_sub_ack", "on_sub_ack_each"}

\* C28: a per-operation adapter of the MQTT client that fires after
\* drop_client runs to its end and hands every boundary call the context
\* the operation was called with: it reads nothing of the freed handle.
C28_CapturedByValue ==
    \A i \in 1..Len(stack) :
        (/\ stack[i].frame = "adapter"
         /\ stack[i].kind = "mqtt"
         /\ stack[i].a \in PerOperationAdapters
         /\ handles["mqtt"].st = "dropped") =>
            /\ ~stack[i].crashed
            /\ \A j \in DOMAIN stack[i].calls : stack[i].calls[j].ctx = stack[i].passed

\* -------------------------------------------- adapters fired without response
\* The native client fires an adapter with a null response and a nonzero
\* I/O error.  Every adapter but job_executions_changed_events reads
\* response-> (rejected->) first: through the null pointer the process dies
\* or the reads yield arbitrary field values.
NullDeref == {"crash", "garbage"}
IoFailures == IoErrs \ {0}

\* The adapter ended the process before it reached the boundary callback.
CrashedCb(fn, io_err) == [fn |-> fn, io_err |-> io_err, crashed |-> TRUE, has_info |-> FALSE]
Crashes(fn, io_err) ==
    Enter(CrashedCb(fn, io_err), Built(JobInfo_default, heap, native, <<>>, <<>>))

\* job_executions_changed_events(interface) (jobs.cpp 271-277): the response
\* parameter is unnamed and never read.
job_executions_changed_events_lambda(io_err) ==
    Enter(CbRec("on_job_executions_changed_events", nullptr, FALSE,
                Built(JobInfo_default, heap, native, <<>>, <<>>), nullptr, io_err, nullptr, TRUE),
          Built(JobInfo_default, heap, native, <<>>, <<>>))

FireNull_describe_job_execution_accepted ==
    /\ CanFire
    /\ \E e \in IoFailures, ub \in NullDeref, ok \in BOOLEAN :
          IF ub = "crash" THEN Crashes("on_describe_job_execution_accepted", e)
          ELSE \E resp \in ExecutionResponses : describe_job_execution_accepted_lambda(resp, e, ok)

FireNull_update_job_execution_accepted ==
    /\ CanFire
    /\ \E e \in IoFailures, ub \in NullDeref, ok \in BOOLEAN :
          IF ub = "crash" THEN Crashes("on_update_job_execution_accepted", e)
          ELSE \E resp \in UpdateResponses : update_job_execution_accepted_lambda(resp, e, ok)

FireNull_start_next_pending_job_execution ==
    /\ CanFire
    /\ \E e \in IoFailures, ub \in NullDeref, ok \in BOOLEAN :
          IF ub = "crash" THEN Crashes("on_start_next_pending_job_execution_accepted", e)
          ELSE \E resp \in ExecutionResponses :
                  start_next_pending_job_execution_lambda(resp, e, ok)

FireNull_next_job_execution_changed_events ==
    /\ CanFire
    /\ \E e \in IoFailures, ub \in NullDeref, ok \in BOOLEAN :
          IF ub = "crash" THEN Crashes("on_next_job_execution_changed_events", e)
          ELSE \E resp \in ChangedResponses :
                  next_job_execution_changed_events_lambda(resp, e, ok)

FireNull_rejected ==
    /\ CanFire
    /\ \E impl \in RejectedCallbacks, e \in IoFailures, ub \in NullDeref :
          IF ub = "crash" THEN Crashes(impl, e)
          ELSE \E rejected \in RejectedErrors : rejected_lambda(impl, rejected, e)

FireNull_get_pending_job_executions ==
    /\ CanFire
    /\ \E e \in IoFailures, ub \in NullDeref :
          IF ub = "crash" THEN Crashes("on_get_pending_job_executions_accepted", e)
          ELSE \E response \in GetPendingResponses :
                  get_pending_job_executions_lambda(response, e)

FireNull_job_executions_changed_events ==
    /\ CanFire
    /\ \E e \in IoFailures : job_executions_changed_events_lambda(e)

\* The boundary callback returns, if the adapter got that far.
NullCallbackReturns ==
    /\ cb # IdleCb
    /\ "crashed" \notin DOMAIN cb
    /\ CallbackReturns

JobsNullNext ==
    \/ FireNull_describe_job_execution_accepted
    \/ FireNull_update_job_execution_accepted
    \/ FireNull_start_next_pending_job_execution
    \/ FireNull_next_job_execution_changed_events
    \/ FireNull_rejected
    \/ FireNull_get_pending_job_executions
    \/ FireNull_job_executions_changed_events
    \/ NullCallbackReturns

SpecJobsNull == JobsInit /\ [][JobsNullNext]_vars

\* The payload arguments of the callback in progress are all absent.
AbsentPayload(c) ==
    /\ c.client_token = nullptr
    /\ c.timestamp = nullptr
    /\ c.has_info => c.info = JobInfo_default
    /\ c.fn \in RejectedCallbacks => c.pod = Rejected_default
    /\ c.fn = "on_get_pending_job_executions_accepted" =>
          (c.pod.queued_size = 0 /\ c.pod.progres_size = 0)

\* C29: a Jobs adapter fired with a nonzero I/O error and a null response
\* reaches its boundary callback, hands it that error code and passes every
\* payload argument as absent, without reading through the null response.
C29_NullResponseDelivered ==
    cb # IdleCb =>
        /\ "crashed" \notin DOMAIN cb
        /\ cb.io_err \in IoFailures
        /\ AbsentPayload(cb)

\* ------------------------------------------------ abandoned registrations
\* internal_jobs_client / internal_job register their adapters one by one on
\* the connection of the MQTT client and return nullptr at the first
\* registration that fails.
JobsKinds == {"jobs", "job"}
RegistrationsOf(kind) == IF kind = "jobs" THEN JobsClientRegs ELSE JobRegs

\* The answers of the native SubscribeTo... calls when the k-th fails
\* (k = 0: none fails).
FailingAt(n, k) == [i \in 1..n |-> i # k]

\* An adapter the connection holds, with the interface it captured.
Registration(kind, a, passed) == [kind |-> kind, a |-> a, passed |-> passed]

\* The SubscribeTo... calls of a construction call that returned true.
RegistrationsMade(r) == CountOp(r.trace, "subscribe") - (IF r.ret = "null" THEN 1 ELSE 0)

\* Faulty variant: a failed construction unsubscribes what it had registered.
LeftRegistered_TornDown(r, made) == IF r.ret = "null" THEN {} ELSE made

\* What the connection holds when the construction function returns:
\* `return nullptr;` follows the failed call directly, nothing is
\* unsubscribed (jobs.cpp 88-130, job.cpp 52-78).
LeftRegistered(r, made) == made

ConstructionCall(kind, ctx, res, r) ==
    [kind |-> kind, ctx |-> ctx, res |-> res, ret |-> r.ret, made |-> RegistrationsMade(r)]

\* internal_jobs_client / internal_job called once with the context ctx on
\* the live MQTT client; the k-th registration fails.
Construct_jobs_object(kind, ctx, k) ==
    /\ stack = <<>>
    /\ handles["mqtt"].st = "live"
    /\ handles[kind].st = "none"
    /\ \A i \in DOMAIN requests : requests[i].kind # kind
    /\ LET res == FailingAt(Len(RegistrationsOf(kind)), k)
           r == IF kind = "jobs" THEN internal_jobs_client(res) ELSE internal_job(res)
           made == {Registration(kind, RegistrationsOf(kind)[j], ctx) : j \in 1..RegistrationsMade(r)}
       IN /\ pending' = pending \cup LeftRegistered(r, made)
          /\ handles' = IF r.ret = "handle"
                        THEN [handles EXCEPT ![kind] = LiveHandle(ctx)]
                        ELSE handles
          /\ conn' = IF r.ret = "handle" THEN shared_ptr_copy(conn) ELSE conn
          /\ requests' = Append(requests, ConstructionCall(kind, ctx, res, r))
    /\ UNCHANGED <<stack, fired, delivered>>
    /\ UNCHANGED <<bufVars, ctorVars, cb>>

\* The connection fires, on its thread t, an adapter it holds.
FireRegistered(t) ==
    /\ stack = <<>>
    /\ fired < MaxEvents
    /\ ConnectionAlive(handles)
    /\ \E p \in pending : \E args \in EventArgs(p.a) :
          stack' = <<AdapterFrame(t, p.kind, p.a, args, fired + 1, p.passed,
                                  AdapterBody(p.kind, p.a, p.passed, args, 1), FALSE)>>
    /\ fired' = fired + 1
    /\ UNCHANGED <<handles, conn, pending, delivered, requests>>
    /\ UNCHANGED <<bufVars, ctorVars, cb>>

AbandonedNext ==
    \/ \E ctx \in Contexts : NewHandle("mqtt", ctx)
    \/ \E kind \in JobsKinds \cup {"mqtt"} : DropHandle(kind)
    \/ \E kind \in JobsKinds, ctx \in Contexts :
          \E k \in 0..Len(RegistrationsOf(kind)) : Construct_jobs_object(kind, ctx, k)
    \/ \E t \in Threads : FireRegistered(t)
    \/ EnterCallback
    \/ BoundaryReturns
    \/ AdapterReturns

SpecAbandoned == EventsInit /\ [][AbandonedNext]_vars

\* ---------------------------------------- abandoned registration properties
\* The construction calls that returned null after at least one registration.
FailedLate == {i \in DOMAIN requests : requests[i].ret = "null" /\ requests[i].made > 0}

\* C30: when the k-th registration of internal_jobs_client or internal_job
\* fails (k > 1) and null is returned, the k-1 registrations made before it
\* stay on the MQTT connection for as long as the connection lives, and an
\* adapter among them that fires hands its boundary callback the context the
\* failed call was given.
C30_EarlierRegistrationsStay ==
    /\ \A i \in FailedLate :
          ConnectionAlive(handles) =>
              \A j \in 1..requests[i].made :
                  Registration(requests[i].kind, RegistrationsOf(requests[i].kind)[j], requests[i].ctx)
                      \in pending
    /\ \A i \in CallbackFrames :
          /\ i > 1
          /\ stack[i].ctx = stack[i - 1].passed
          /\ stack[i].fn = BoundaryFn(stack[i - 1].kind, stack[i - 1].a)

C30_Witness ==
    /\ Len(stack) = 2
    /\ stack[2].frame = "callback"
    /\ handles[stack[1].kind].st = "none"
    /\ \E i \in FailedLate :
          /\ requests[i].kind = stack[1].kind
          /\ requests[i].made = 2
          /\ stack[1].a = RegistrationsOf(requests[i].kind)[2]
          /\ stack[2].ctx = requests[i].ctx

\* ------------------------------------------------- connecting, step by step
\* internal_mqtt_client runs on the caller's thread one step of its trace at
\* a time, while the event loop of the native library may fire lifecycle
\* events on the connection as soon as Connect has been called.
LifecycleAdapters ==
    {"OnConnectionCompleted", "OnConnectionClosed", "OnConnectionInterrupted",
     "OnConnectionResumed"}

\* The construction call in progress: the context it was given and how many
\* steps of its trace have been executed.
InProgress(cfg, stub, ctx, r) ==
    CallRec("internal_mqtt_client", cfg, stub, <<>>, r, 0) @@ [ctx |-> ctx, pc |-> 0]
Connecting == call # IdleCall /\ call.pc < Len(call.trace)
Executed == IF call = IdleCall THEN <<>> ELSE SubSeq(call.trace, 1, call.pc)

\* The native connection exists and Connect has been called on it: during
\* the call from Connect on, and afterwards for as long as a handle holds it.
ConnectBegun ==
    \/ call # IdleCall /\ Did(Executed, "native", "Connect")
    \/ call = IdleCall /\ ConnectionAlive(handles)

\* internal_mqtt_client(client_config, interface) is entered.
Enter_internal_mqtt_client(ctx, stub) ==
    /\ call = IdleCall
    /\ stack = <<>>
    /\ handles["mqtt"].st = "none"
    /\ call' = InProgress(ValidCertConfig, stub, ctx,
                          internal_mqtt_client(ValidCertConfig, stub,
                                               [strlen |-> "crash", string |-> "crash"]))
    /\ UNCHANGED <<handles, conn, pending, stack, fired, delivered, requests>>
    /\ UNCHANGED <<bufVars, nhandles, cb>>

\* The next step of the function body: assigning a lambda to a callback slot
\* of the connection stores it there; new InternalMqttClient makes the handle.
Step_internal_mqtt_client ==
    /\ Connecting
    /\ LET e == call.trace[call.pc + 1]
       IN /\ pending' = IF e.op = "adapter"
                        THEN pending \cup {Registration("mqtt", e.arg, call.ctx)}
                        ELSE pending
          /\ handles' = IF e.op = "new"
                        THEN [handles EXCEPT !["mqtt"] = LiveHandle(call.ctx)]
                        ELSE handles
          /\ conn' = IF e.op = "new" THEN shared_ptr_make ELSE conn
    /\ call' = [call EXCEPT !.pc = @ + 1]
    /\ UNCHANGED <<stack, fired, delivered, requests>>
    /\ UNCHANGED <<bufVars, nhandles, cb>>

\* The function returns; after `return nullptr` the local connection, and
\* with it every callback slot, is gone.
Return_internal_mqtt_client ==
    /\ call # IdleCall
    /\ call.pc = Len(call.trace)
    /\ stack = <<>>
    /\ pending' = IF call.ret = "handle" THEN pending ELSE {}
    /\ call' = IdleCall
    /\ UNCHANGED <<handles, conn, stack, fired, delivered, requests>>
    /\ UNCHANGED <<bufVars, nhandles, cb>>

\* The event loop raises the lifecycle event a on its thread t: the
\* connection invokes the lambda in the slot, and skips the event when the
\* slot is empty.
NativeLifecycleEvent(t, a) ==
    /\ stack = <<>>
    /\ fired < MaxEvents
    /\ ConnectBegun
    /\ \E args \in EventArgs(a) :
          stack' = IF \E p \in pending : p.a = a
                   THEN LET p == CHOOSE q \in pending : q.a = a
                        IN <<AdapterFrame(t, "mqtt", a, args, fired + 1, p.passed,
                                          AdapterBody("mqtt", a, p.passed, args, 1), FALSE)>>
                   ELSE <<>>
    /\ fired' = fired + 1
    /\ UNCHANGED <<handles, conn, pending, delivered, requests>>
    /\ UNCHANGED <<bufVars, ctorVars, cb>>

ConnectNext ==
    \/ \E ctx \in Contexts, stub \in MqttStubs : Enter_internal_mqtt_client(ctx, stub)
    \/ Step_internal_mqtt_client
    \/ Return_internal_mqtt_client
    \/ \E t \in Threads, a \in LifecycleAdapters : NativeLifecycleEvent(t, a)
    \/ EnterCallback
    \/ BoundaryReturns
    \/ AdapterReturns

SpecConnect == EventsInit /\ [][ConnectNext]_vars

\* ----------------------------------------------------- connecting properties
\* C31: all four lifecycle adapters are in their slots, holding the context
\* of the call, from the moment Connect is called; every lifecycle event
\* raised from then on, also before the handle is returned, reaches its
\* boundary callback exactly once with that context, and none is skipped.
C31_AdaptersBeforeConnect ==
    /\ (call # IdleCall /\ Did(Executed, "native", "Connect")) =>
          \A a \in LifecycleAdapters : Registration("mqtt", a, call.ctx) \in pending
    /\ \A i \in CallbackFrames :
          /\ i > 1
          /\ stack[i].fn = BoundaryFn("mqtt", stack[i - 1].a)
          /\ stack[i].ctx = stack[i - 1].passed
          /\ call # IdleCall => stack[i].ctx = call.ctx
          /\ handles["mqtt"].st = "live" => stack[i].ctx = handles["mqtt"].captured
    /\ stack = <<>> => \A ev \in 1..fired : CountOf(delivered, ev) = 1

C31_Witness ==
    /\ Connecting
    /\ handles["mqtt"].st = "none"
    /\ Len(stack) = 2
    /\ stack[2].fn = "on_completed"
    /\ stack[2].ctx = call.ctx

\* ------------------------------------------------------- dropping properties
\* The handles whose drop function is drop_client, drop_jobs_client, drop_job.
DroppedKinds == {"mqtt", "jobs", "job"}

\* C32: drop_client, drop_jobs_client and drop_job only delete the handle;
\* an adapter subscribed for the handle that fires afterwards, the connection
\* being still alive, runs to its end and makes its boundary calls with the
\* context of that handle.
C32_DroppedStillDelivers ==
    \A i \in 1..Len(stack) :
        (/\ stack[i].frame = "adapter"
         /\ stack[i].kind \in DroppedKinds
         /\ handles[stack[i].kind].st = "dropped") =>
            /\ ~stack[i].crashed
            /\ \A j \in DOMAIN stack[i].calls :
                  stack[i].calls[j].ctx = handles[stack[i].kind].captured

\* The same for the adapters registered at construction, which hold the
\* context by value: these do keep delivering after the drop.
C32_ConstructionAdaptersDeliver ==
    \A i \in 1..Len(stack) :
        (/\ stack[i].frame = "adapter"
         /\ stack[i].kind \in DroppedKinds
         /\ stack[i].a \notin PerOperationAdapters
         /\ handles[stack[i].kind].st = "dropped") =>
            /\ ~stack[i].crashed
            /\ stack[i].calls # <<>>
            /\ \A j \in DOMAIN stack[i].calls :
                  stack[i].calls[j].ctx = handles[stack[i].kind].captured

\* ------------------------------------------------- multi-topic acknowledgment
\* What the native library passes to the suback lambda of subscribe_multiple
\* besides the connection: the packet id, the vector of topics (its size
\* here), the granted qos and the error code.
SubackPacketIds == {1, 2}
SubackQos == {0, 1}
MultiSubackArgs ==
    [packet_id : SubackPacketIds, topics : TopicCounts, qos : SubackQos,
     error_code : ErrorCodes]

\* The native library fires, on its thread t, the suback lambda left by a
\* subscribe_multiple of the live client; the suback carries as many topics
\* as were subscribed.
FireMultiSuback(t) ==
    /\ stack = <<>>
    /\ fired < MaxEvents
    /\ handles["mqtt"].st = "live"
    /\ \E p \in pending : \E args \in MultiSubackArgs :
          /\ p.a = "on_sub_ack_each"
          /\ args.topics = p.n
          /\ stack' = <<AdapterFrame(t, "mqtt", p.a, args, fired + 1, p.passed,
                                     AdapterBody("mqtt", p.a,
                                                 get_interface(handles["mqtt"], p.passed, "stale"),
                                                 args, args.topics),
                                     FALSE)>>
          /\ pending' = pending \ {p}
    /\ fired' = fired + 1
    /\ UNCHANGED <<handles, conn, delivered>>
    /\ UNCHANGED <<bufVars, ctorVars, cb, requests>>

SubackNext ==
    \/ \E ctx \in Contexts : NewHandle("mqtt", ctx)
    \/ DropHandle("mqtt")
    \/ \E n \in TopicCounts, pid \in PacketIds : Op_subscribe_multiple(n, pid)
    \/ \E t \in Threads : FireMultiSuback(t)
    \/ EnterCallback
    \/ BoundaryReturns
    \/ AdapterReturns

SpecSuback == EventsInit /\ [][SubackNext]_vars

\* The on_sub_ack call in progress is the one for the next topic of the
\* suback, with the suback's own packet id, qos and error code and the
\* context of the client.
SubackCallInOrder ==
    (Len(stack) = 2 /\ stack[1].a = "on_sub_ack_each") =>
        /\ stack[2].fn = "on_sub_ack"
        /\ stack[1].done < stack[1].args.topics
        /\ stack[2].args.topic = stack[1].done + 1
        /\ stack[2].ctx = stack[1].passed
        /\ stack[2].ctx = handles["mqtt"].captured
        /\ stack[2].args.packet_id = stack[1].args.packet_id
        /\ stack[2].args.qos = stack[1].args.qos
        /\ stack[2].args.error_code = stack[1].args.error_code

\* The suback lambda returns to the native library.
SubackLambdaReturns ==
    /\ Len(stack) = 1
    /\ stack[1].a = "on_sub_ack_each"
    /\ stack' = <<>>

\* C33: for one suback of subscribe_multiple carrying k topics, with the
\* client handle live, on_sub_ack is invoked exactly k times, topic after
\* topic, each time with the client's context and the suback's packet id,
\* qos and error code; for k = 0 the lambda returns without any invocation.
C33_OncePerTopic ==
    /\ []SubackCallInOrder
    /\ [][SubackLambdaReturns =>
             /\ stack[1].done = stack[1].args.topics
             /\ CountOf(delivered, stack[1].ev) = stack[1].args.topics]_vars

C33_Witness ==
    /\ Len(stack) = 2
    /\ stack[1].a = "on_sub_ack_each"
    /\ stack[1].args.topics = 2
    /\ stack[1].args.error_code # 0
    /\ stack[1].done = 1
    /\ stack[2].args.topic = 2

\* --------------------------------------------------- tunnel notification
\* SecureTunnelingNotifyResponse *resp as the native client passes it: a
\* null pointer, or a response whose three optional strings are each
\* present or absent.
NotifyResponse(null, token, region, mode) ==
    [null |-> null, ClientAccessToken |-> token, Region |-> region, ClientMode |-> mode]
NotifyResponseValues ==
    {NotifyResponse(TRUE, None, None, None)}
        \cup {NotifyResponse(FALSE, token, region, mode) :
                 token \in Opt({"token"}), region \in Opt({"eu-west-1"}),
                 mode \in Opt({"destination"})}

\* Faulty variant: the client mode is not checked before the callback.
subscribe_callback_ModeUnchecked(interface, resp, io_error) ==
    IF io_error # 0 THEN Body(<<>>, <<"error">>)
    ELSE IF resp.null THEN Body(<<>>, <<"error">>)
    ELSE IF resp.ClientAccessToken = None THEN Body(<<>>, <<"error">>)
    ELSE IF resp.Region = None THEN Body(<<>>, <<"error">>)
    ELSE Body(<<BoundaryCall("on_subscribe_tunnel", interface,
                             [token |-> resp.ClientAccessToken, region |-> resp.Region,
                              mode |-> resp.ClientMode])>>, <<>>)

\* subscribe_callback(interface): the lambda fired with (resp, io_error).
\* Each check that fails writes one error record and returns.
subscribe_callback(interface, resp, io_error) ==
    IF io_error # 0 THEN Body(<<>>, <<"error">>)
    ELSE IF resp.null THEN Body(<<>>, <<"error">>)
    ELSE IF resp.ClientAccessToken = None THEN Body(<<>>, <<"error">>)
    ELSE IF resp.Region = None THEN Body(<<>>, <<"error">>)
    ELSE IF resp.ClientMode = None THEN Body(<<>>, <<"error">>)
    ELSE Body(<<BoundaryCall("on_subscribe_tunnel", interface,
                             [token |-> resp.ClientAccessToken, region |-> resp.Region,
                              mode |-> resp.ClientMode])>>, <<>>)

\* The native tunneling client fires the notification lambda of the tunnel
\* client on its thread t.
FireTunnelsNotify(t) ==
    /\ stack = <<>>
    /\ fired < MaxEvents
    /\ handles["tunnel_client"].st # "none"
    /\ NativeAlive(handles, "tunnel_client")
    /\ \E resp \in NotifyResponseValues, io_error \in ErrorCodes :
          stack' = <<AdapterFrame(t, "tunnel_client", "TunnelsNotify",
                                  [io_error |-> io_error, resp |-> resp], fired + 1,
                                  handles["tunnel_client"].captured,
                                  subscribe_callback(handles["tunnel_client"].captured,
                                                     resp, io_error),
                                  FALSE)>>
    /\ fired' = fired + 1
    /\ UNCHANGED <<handles, conn, pending, delivered>>
    /\ UNCHANGED <<bufVars, ctorVars, cb, requests>>

NotifyNext ==
    \/ \E kind \in {"mqtt", "tunnel_client"}, ctx \in Contexts : NewHandle(kind, ctx)
    \/ \E kind \in {"mqtt", "tunnel_client"} : DropHandle(kind)
    \/ \E t \in Threads : FireTunnelsNotify(t)
    \/ EnterCallback
    \/ BoundaryReturns
    \/ AdapterReturns

SpecNotify == EventsInit /\ [][NotifyNext]_vars

\* The notification is one to hand on: no I/O error, a response, and all
\* three of its fields.
NotifyComplete(args) ==
    /\ args.io_error = 0
    /\ ~args.resp.null
    /\ args.resp.ClientAccessToken # None
    /\ args.resp.Region # None
    /\ args.resp.ClientMode # None

NotifyFrames ==
    {i \in 1..Len(stack) : stack[i].frame = "adapter" /\ stack[i].a = "TunnelsNotify"}

\* The notification lambda returns to the native client.
NotifyLambdaReturns ==
    /\ Len(stack) = 1
    /\ stack[1].a = "TunnelsNotify"
    /\ stack' = <<>>

\* C34: the tunnel notification lambda invokes on_subscribe_tunnel, once and
\* with the tunnel client's context, exactly when io_error is 0, the
\* response is not null and ClientAccessToken, Region and ClientMode are all
\* present; in every other case it writes exactly one error record and
\* returns without invoking any callback, so the I/O error code reaches
\* nobody.
C34_NotifyIffComplete ==
    /\ [](\A i \in NotifyFrames :
            /\ NotifyComplete(stack[i].args) =>
                  /\ Len(stack[i].calls) = 1
                  /\ stack[i].calls[1].fn = "on_subscribe_tunnel"
                  /\ stack[i].calls[1].ctx = handles["tunnel_client"].captured
                  /\ stack[i].logs = <<>>
            /\ ~NotifyComplete(stack[i].args) =>
                  /\ stack[i].calls = <<>>
                  /\ stack[i].logs = <<"error">>
                  /\ Len(stack) = 1)
    /\ [][NotifyLambdaReturns =>
             CountOf(delivered, stack[1].ev)
                = (IF NotifyComplete(stack[1].args) THEN 1 ELSE 0)]_vars

C34_Witness ==
    /\ Len(stack) = 1
    /\ stack[1].a = "TunnelsNotify"
    /\ stack[1].args.io_error # 0
    /\ ~stack[1].args.resp.null
    /\ stack[1].args.resp.ClientMode # None
    /\ stack[1].logs = <<"error">>
    /\ delivered = <<>>

\* ------------------------------------------------ update request properties
\* C35: publish_update_execution sets each of ExecutionNumber,
\* ExpectedVersion, IncludeJobDocument, IncludeJobExecutionState, JobId,
\* Status and StepTimeoutInMinutes exactly when the matching request pointer
\* is non-null, to the value pointed to, and ThingName always to the thing
\* name of the handle; publish_start_next_pending_execution does the same
\* with step_timeout.  A null pointer is never read.
C35_UpdateRequestBuilt ==
    /\ call.fn = "publish_update_execution" =>
          /\ PresentIff(call.out.req.ExecutionNumber, call.request.execution_number)
          /\ PresentIff(call.out.req.ExpectedVersion, call.request.expected_version)
          /\ PresentIff(call.out.req.IncludeJobDocument, call.request.include_document)
          /\ PresentIff(call.out.req.IncludeJobExecutionState,
                        call.request.include_execution_state)
          /\ PresentIff(call.out.req.JobId, call.request.job_id)
          /\ PresentIff(call.out.req.Status, call.request.status)
          /\ PresentIff(call.out.req.StepTimeoutInMinutes, call.request.step_timeout)
          /\ call.out.req.ThingName = Some(call.handle.thing_name)
    /\ call.fn = "publish_start_next_pending_execution" =>
          /\ PresentIff(call.out.req.StepTimeoutInMinutes, call.request.step_timeout)
          /\ call.out.req.ThingName = Some(call.handle.thing_name)
          /\ DOMAIN call.out.req = {"ThingName", "StepTimeoutInMinutes"}

C35_Witness ==
    /\ call.fn = "publish_update_execution"
    /\ call.request.status = None
    /\ call.request.step_timeout = Some(5)
    /\ call.request.expected_version = None
    /\ call.out.req.Status = None
    /\ call.out.req.StepTimeoutInMinutes = Some(5)
    /\ call.out.req.ThingName = Some("thingB")

\* ------------------------------------------------- JobInfo pointer properties
\* C36: on_describe_job_execution_accepted gets a null JobInfo pointer
\* exactly when the response has no Execution;
\* on_start_next_pending_job_execution_accepted and
\* on_next_job_execution_changed_events always get a JobInfo, whose fields
\* are all null and whose document is empty when there is no Execution.
C36_JobInfoNullness ==
    /\ cb.fn = "on_describe_job_execution_accepted" =>
          (~cb.has_info <=> ~cb.resp.Execution)
    /\ cb.fn \in {"on_start_next_pending_job_execution_accepted",
                  "on_next_job_execution_changed_events"} =>
          /\ cb.has_info
          /\ ~cb.resp.Execution =>
                /\ cb.info = JobInfo_default
                /\ is_empty(cb.info.job_document)
                /\ \A f \in DOMAIN cb.info \ {"job_document"} : cb.info[f] = nullptr

C36_Witness ==
    /\ cb.fn = "on_next_job_execution_changed_events"
    /\ ~cb.resp.Execution
    /\ cb.resp.Timestamp
    /\ cb.has_info
    /\ cb.info.job_id = nullptr

\* ------------------------------------------------- job document properties
\* The callback in progress was handed a JobInfo whose job_document owns an
\* allocation.
DocumentOwned == cb # IdleCb /\ cb.has_info /\ is_owned(cb.info.job_document)
LiveCells == {a \in AllocIds : heap[a].st = "live"}

\* C37: the allocation owned by the job_document of a JobInfo a Jobs
\* adapter builds is live, and has never been released, for as long as the
\* boundary callback runs; when the callback returns it is released, exactly
\* once, whatever path built the JobInfo.  No allocation outlives its
\* callback and none is released twice.
C37_DocumentLifetime ==
    /\ [](/\ DocumentOwned =>
               /\ cb.info.job_document.data.k = "heap"
               /\ LiveCells = {cb.info.job_document.data.id}
               /\ heap[cb.info.job_document.data.id].frees = 0
          /\ ~DocumentOwned => LiveCells = {}
          /\ \A a \in AllocIds : heap[a].frees <= 1)
    /\ [][(DocumentOwned /\ cb' = IdleCb) =>
             /\ heap'[cb.info.job_document.data.id].st = "freed"
             /\ heap'[cb.info.job_document.data.id].frees = 1]_vars

C37_Witness ==
    /\ cb = IdleCb
    /\ \E a \in AllocIds : heap[a].st = "freed" /\ heap[a].frees = 1
    /\ LiveCells = {}

\* ------------------------------------------------- allocation ownership
\* C38: after any sequence of create, move construction, move assignment
\* and destruction, every allocation not yet freed is held by exactly one
\* Buffer with owned = true (move assignment into an owning Buffer included),
\* and once every Buffer has been destroyed every allocation has been freed.
C38_EveryAllocationOwned ==
    /\ \A a \in AllocIds : heap[a].st = "live" => Cardinality(OwnersOf(a)) = 1
    /\ (\A s \in Objects : bufs[s].st = "destroyed") =>
          \A a \in AllocIds : heap[a].st # "live"

\* ------------------------------------------------------- copies of into()
\* The native allocations made by into() so far.
CopiesMade == CopyRegions \cap DOMAIN native

\* C39: a copy made by into() for publish or send_message has been released
\* by the time the call that consumed it has returned: no copy stays
\* allocated with nobody left to free it.
C39_CopiesReleased ==
    \A r \in CopiesMade :
        (\E i \in DOMAIN requests : requests[i].message.payload.ptr = NativePtr(r)) =>
            native[r].st = "freed"

\* ------------------------------------------------------------------ logging
\* The logger installed in the native library hands every log record of the
\* library to log_function, which formats it and passes it to one of the
\* five sinks rust_trace, rust_debug, rust_info, rust_warn, rust_error.
MaxLogs == 2

\* aws/common/logging.h: the log levels, and the values around them that are
\* no level.
AWS_LOG_LEVEL ==
    [NONE |-> 0, FATAL |-> 1, ERROR |-> 2, WARN |-> 3, INFO |-> 4, DEBUG |-> 5, TRACE |-> 6]
LogLevels == {AWS_LOG_LEVEL[n] : n \in DOMAIN AWS_LOG_LEVEL}
LevelValues == -1..8
AWS_OP_SUCCESS == 0
AWS_OP_ERR == -1

\* The text a format string and its arguments stand for, as characters.
LogTexts == {<<>>, <<"a">>, <<"a", "b">>}

\* std::vsnprintf(nullptr, 0, format, args): the length of the whole text.
vsnprintf_size(text) == Len(text)
\* std::vsnprintf(buff, size, format, args): at most size - 1 characters of
\* the text, then the terminator.
vsnprintf(size, text) ==
    SubSeq(text, 1, IF Len(text) < size - 1 THEN Len(text) ELSE size - 1)

\* One call of a sink: rust_x(file, name, line, msg).
SinkCall(fn, file, name, line, msg) ==
    [fn |-> fn, file |-> file, name |-> name, line |-> line, msg |-> msg]
Logged(forwarded, ret) == [forwarded |-> forwarded, ret |-> ret]

\* Faulty variant: a record of level NONE is swallowed.
log_function_NoneSwallowed(level, text) ==
    LET size == 1 + vsnprintf_size(text)
        buff == vsnprintf(size, text)
    IN CASE level = AWS_LOG_LEVEL.NONE -> Logged(<<>>, AWS_OP_SUCCESS)
         [] level = AWS_LOG_LEVEL.TRACE ->
              Logged(<<SinkCall("rust_trace", "", "", 0, buff)>>, AWS_OP_SUCCESS)
         [] level = AWS_LOG_LEVEL.DEBUG ->
              Logged(<<SinkCall("rust_debug", "", "", 0, buff)>>, AWS_OP_SUCCESS)
         [] level = AWS_LOG_LEVEL.WARN ->
              Logged(<<SinkCall("rust_warn", "", "", 0, buff)>>, AWS_OP_SUCCESS)
         [] level \in {AWS_LOG_LEVEL.FATAL, AWS_LOG_LEVEL.ERROR} ->
              Logged(<<SinkCall("rust_error", "", "", 0, buff)>>, AWS_OP_SUCCESS)
         [] level = AWS_LOG_LEVEL.INFO ->
              Logged(<<SinkCall("rust_info", "", "", 0, buff)>>, AWS_OP_SUCCESS)
         [] OTHER -> Logged(<<>>, AWS_OP_ERR)

\* int log_function(aws_logger *, aws_log_level level, aws_log_subject_t,
\*                  const char *format, ...)
log_function(level, text) ==
    LET size == 1 + vsnprintf_size(text)
        buff == vsnprintf(size, text)
    IN CASE level \in {AWS_LOG_LEVEL.NONE, AWS_LOG_LEVEL.TRACE} ->
              Logged(<<SinkCall("rust_trace", "", "", 0, buff)>>, AWS_OP_SUCCESS)
         [] level = AWS_LOG_LEVEL.DEBUG ->
              Logged(<<SinkCall("rust_debug", "", "", 0, buff)>>, AWS_OP_SUCCESS)
         [] level = AWS_LOG_LEVEL.WARN ->
              Logged(<<SinkCall("rust_warn", "", "", 0, buff)>>, AWS_OP_SUCCESS)
         [] level \in {AWS_LOG_LEVEL.FATAL, AWS_LOG_LEVEL.ERROR} ->
              Logged(<<SinkCall("rust_error", "", "", 0, buff)>>, AWS_OP_SUCCESS)
         [] level = AWS_LOG_LEVEL.INFO ->
              Logged(<<SinkCall("rust_info", "", "", 0, buff)>>, AWS_OP_SUCCESS)
         [] OTHER -> Logged(<<>>, AWS_OP_ERR)

\* The native library logs a record: log_function runs, the sink calls it
\* makes are appended to what the sinks have received.
Call_log_function(level, text) ==
    /\ Len(requests) < MaxLogs
    /\ LET out == log_function(level, text)
       IN /\ call' = [fn |-> "log_function", level |-> level, text |-> text, out |-> out]
          /\ requests' = requests \o out.forwarded
    /\ UNCHANGED <<handles, conn, pending, stack, fired, delivered>>
    /\ UNCHANGED <<bufVars, nhandles, cb>>

LogsNext == \E level \in LevelValues, text \in LogTexts : Call_log_function(level, text)

SpecLogs == RequestsInit /\ [][LogsNext]_vars

\* The sink of each level.
SinkOfLevel ==
    [n \in DOMAIN AWS_LOG_LEVEL |->
        CASE n \in {"NONE", "TRACE"} -> "rust_trace"
          [] n = "DEBUG" -> "rust_debug"
          [] n = "INFO" -> "rust_info"
          [] n = "WARN" -> "rust_warn"
          [] n \in {"ERROR", "FATAL"} -> "rust_error"]

\* C40: log_function passes a record of a known level exactly once to the
\* sink of that level (NONE and TRACE to trace, DEBUG to debug, INFO to
\* info, WARN to warn, ERROR and FATAL to error), with the whole formatted
\* text, and returns success; for any other level value it calls no sink
\* and returns an error.
C40_LevelRouting ==
    call.fn = "log_function" =>
        /\ \A n \in DOMAIN AWS_LOG_LEVEL :
              call.level = AWS_LOG_LEVEL[n] =>
                  /\ Len(call.out.forwarded) = 1
                  /\ call.out.forwarded[1].fn = SinkOfLevel[n]
                  /\ call.out.forwarded[1].msg = call.text
                  /\ call.out.ret = AWS_OP_SUCCESS
        /\ call.level \notin LogLevels =>
              /\ call.out.forwarded = <<>>
              /\ call.out.ret = AWS_OP_ERR
        /\ Len(requests) >= Len(call.out.forwarded)
        /\ SubSeq(requests, Len(requests) - Len(call.out.forwarded) + 1, Len(requests))
              = call.out.forwarded

C40_Witness ==
    /\ call.fn = "log_function"
    /\ call.level = AWS_LOG_LEVEL.NONE
    /\ call.text = <<"a", "b">>
    /\ Len(requests) = 2
    /\ requests[2].fn = "rust_trace"
    /\ requests[1].fn = "rust_error"

====
